---- MODULE Spec2Model ----
(***************************************************************************)
(* Remo, a conversational scheduling assistant (suhasdasari/remo-calender). *)
(* The model covers the message handler (routing, the per-user meeting     *)
(* dialogue, the entity extractors and the date resolver) and the calendar *)
(* service's authorization state.                                          *)
(*                                                                         *)
(* Text is modelled as a sequence of one-character strings, so that the    *)
(* substring tests and regular expressions of the source are computed on   *)
(* the characters of a message and not assumed.                            *)
(* Dates are day numbers: day 0 is 1 January 2024 (a Monday). The time of  *)
(* day carried by a JavaScript Date is dropped; every comparison of the    *)
(* source that the model covers is made at day granularity.                *)
(***************************************************************************)
EXTENDS Integers, Sequences, FiniteSets, TLC

\* a value named in an expression: Body with its parameter bound to v
With(v, Body(_)) == Body(v)

\* An optional value (null or undefined in the source) is a sequence of
\* length zero or one.
None == <<>>

Some(v) == <<v>>

\* the value of an optional value that is present
Val(o) == o[1]

(***************************************************************************)
(* Characters and strings                                                  *)
(***************************************************************************)
Digits == {"0", "1", "2", "3", "4", "5", "6", "7", "8", "9"}

LowerLetters ==
  {"a", "b", "c", "d", "e", "f", "g", "h", "i", "j", "k", "l", "m",
   "n", "o", "p", "q", "r", "s", "t", "u", "v", "w", "x", "y", "z"}

UpperLetters ==
  {"A", "B", "C", "D", "E", "F", "G", "H", "I", "J", "K", "L", "M",
   "N", "O", "P", "Q", "R", "S", "T", "U", "V", "W", "X", "Y", "Z"}

Letters == LowerLetters \cup UpperLetters

\* \w of a JavaScript regular expression
WordChars == Letters \cup Digits \cup {"_"}

\* \s, as far as the messages of the model go
Spaces == {" "}

UpperToLower ==
  [c \in UpperLetters |->
     CASE c = "A" -> "a" [] c = "B" -> "b" [] c = "C" -> "c" [] c = "D" -> "d"
       [] c = "E" -> "e" [] c = "F" -> "f" [] c = "G" -> "g" [] c = "H" -> "h"
       [] c = "I" -> "i" [] c = "J" -> "j" [] c = "K" -> "k" [] c = "L" -> "l"
       [] c = "M" -> "m" [] c = "N" -> "n" [] c = "O" -> "o" [] c = "P" -> "p"
       [] c = "Q" -> "q" [] c = "R" -> "r" [] c = "S" -> "s" [] c = "T" -> "t"
       [] c = "U" -> "u" [] c = "V" -> "v" [] c = "W" -> "w" [] c = "X" -> "x"
       [] c = "Y" -> "y" [] c = "Z" -> "z"]

\* String.prototype.toLowerCase
toLowerCase(s) ==
  [i \in 1..Len(s) |-> IF s[i] \in UpperLetters THEN UpperToLower[s[i]] ELSE s[i]]

\* does sub occur in s at position i
MatchAt(s, i, sub) ==
  /\ i >= 1
  /\ i + Len(sub) - 1 <= Len(s)
  /\ \A k \in 1..Len(sub) : s[i + k - 1] = sub[k]

\* String.prototype.includes
includes(s, sub) == \E i \in 1..(Len(s) + 1) : MatchAt(s, i, sub)

\* the positions of the leading and trailing non-space characters
NonSpacePos(s) == {i \in 1..Len(s) : s[i] \notin Spaces}

Min(S) == CHOOSE x \in S : \A y \in S : x <= y

Max(S) == CHOOSE x \in S : \A y \in S : x >= y

\* String.prototype.trim
trim(s) ==
  IF NonSpacePos(s) = {} THEN <<>>
  ELSE SubSeq(s, Min(NonSpacePos(s)), Max(NonSpacePos(s)))

\* the length of the longest run of characters of class C starting at s[i]
RECURSIVE RunLen(_, _, _)
RunLen(s, i, C) ==
  IF i <= Len(s) /\ s[i] \in C THEN 1 + RunLen(s, i + 1, C) ELSE 0

DigitValue ==
  [c \in Digits |->
     CASE c = "0" -> 0 [] c = "1" -> 1 [] c = "2" -> 2 [] c = "3" -> 3
       [] c = "4" -> 4 [] c = "5" -> 5 [] c = "6" -> 6 [] c = "7" -> 7
       [] c = "8" -> 8 [] c = "9" -> 9]

\* the number written by a string of digits
RECURSIVE DigitsValue(_)
DigitsValue(s) ==
  IF s = <<>> THEN 0
  ELSE 10 * DigitsValue(SubSeq(s, 1, Len(s) - 1)) + DigitValue[s[Len(s)]]

NaN == None

\* parseInt(s): leading white space, an optional sign, then the longest run
\* of digits; NaN when there is none, Some(n) otherwise
parseInt(s) ==
  LET start == RunLen(s, 1, Spaces) + 1
      neg   == start <= Len(s) /\ s[start] = "-"
      from  == IF start <= Len(s) /\ s[start] \in {"-", "+"}
               THEN start + 1 ELSE start
      n     == RunLen(s, from, Digits)
  IN IF n = 0 THEN NaN
     ELSE IF neg THEN Some(0 - DigitsValue(SubSeq(s, from, from + n - 1)))
     ELSE Some(DigitsValue(SubSeq(s, from, from + n - 1)))

DigitChar ==
  [d \in 0..9 |->
     CASE d = 0 -> "0" [] d = 1 -> "1" [] d = 2 -> "2" [] d = 3 -> "3"
       [] d = 4 -> "4" [] d = 5 -> "5" [] d = 6 -> "6" [] d = 7 -> "7"
       [] d = 8 -> "8" [] d = 9 -> "9"]

\* Number.prototype.toString for a natural number
RECURSIVE toString(_)
toString(n) ==
  IF n < 10 THEN <<DigitChar[n]>>
  ELSE toString(n \div 10) \o <<DigitChar[n % 10]>>

\* String.prototype.padStart(2, '0')
padStart2(s) == IF Len(s) < 2 THEN <<"0">> \o s ELSE s

\* \b at the gap before s[i]
WordBoundary(s, i) ==
  LET before == i - 1 >= 1 /\ i - 1 <= Len(s) /\ s[i - 1] \in WordChars
      after  == i >= 1 /\ i <= Len(s) /\ s[i] \in WordChars
  IN before # after

\* /\b<word>\b/ matches somewhere in s (s already in the case to compare)
HasWord(s, word) ==
  \E i \in 1..Len(s) :
    /\ MatchAt(s, i, word)
    /\ WordBoundary(s, i)
    /\ WordBoundary(s, i + Len(word))

(***************************************************************************)
(* Calendar arithmetic of the JavaScript Date object, at day granularity   *)
(***************************************************************************)
EpochYear == 2024

IsLeap(y) == (y % 4 = 0 /\ y % 100 # 0) \/ y % 400 = 0

\* the number of leap years before year y
LeapsBefore(y) == ((y - 1) \div 4) - ((y - 1) \div 100) + ((y - 1) \div 400)

\* the day number of 1 January of year y
DaysBeforeYear(y) ==
  365 * (y - EpochYear) + LeapsBefore(y) - LeapsBefore(EpochYear)

\* months are numbered 0..11 as in JavaScript
DaysInMonth(y, m) ==
  IF m = 1 THEN (IF IsLeap(y) THEN 29 ELSE 28)
  ELSE IF m \in {3, 5, 8, 10} THEN 30 ELSE 31

RECURSIVE DaysBeforeMonth(_, _)
DaysBeforeMonth(y, m) ==
  IF m = 0 THEN 0 ELSE DaysBeforeMonth(y, m - 1) + DaysInMonth(y, m - 1)

\* new Date(year, month, day): a month outside 0..11 carries into the year
\* and a day outside the month carries into the neighbouring months
MakeDate(y, m, d) ==
  LET yy == y + (m \div 12)
      mm == m % 12
  IN DaysBeforeYear(yy) + DaysBeforeMonth(yy, mm) + d - 1

RECURSIVE YearFrom(_, _)
YearFrom(n, y) ==
  IF DaysBeforeYear(y) > n THEN YearFrom(n, y - 1)
  ELSE IF DaysBeforeYear(y + 1) <= n THEN YearFrom(n, y + 1)
  ELSE y

\* Date.prototype.getFullYear
getFullYear(n) == YearFrom(n, EpochYear + (n \div 366))

RECURSIVE MonthFrom(_, _, _)
MonthFrom(n, y, m) ==
  IF MakeDate(y, m + 1, 1) <= n THEN MonthFrom(n, y, m + 1) ELSE m

\* Date.prototype.getMonth
getMonth(n) == MonthFrom(n, getFullYear(n), 0)

\* Date.prototype.getDate
getDate(n) == n - MakeDate(getFullYear(n), getMonth(n), 1) + 1

\* Date.prototype.getDay: 0 is Sunday; day 0 of the model is a Monday
getDay(n) == (n + 1) % 7

(***************************************************************************)
(* Entity extractors                                                       *)
(***************************************************************************)
\* the table of named time expressions, in declaration order
TIME_EXPRESSIONS ==
  << <<<<"n", "o", "o", "n">>, <<"1", "2", ":", "0", "0">>>>,
     <<<<"m", "i", "d", "n", "i", "g", "h", "t">>, <<"0", "0", ":", "0", "0">>>>,
     <<<<"m", "i", "d", "d", "a", "y">>, <<"1", "2", ":", "0", "0">>>>,
     <<<<"m", "o", "r", "n", "i", "n", "g">>, <<"0", "9", ":", "0", "0">>>>,
     <<<<"a", "f", "t", "e", "r", "n", "o", "o", "n">>, <<"1", "4", ":", "0", "0">>>>,
     <<<<"e", "v", "e", "n", "i", "n", "g">>, <<"1", "8", ":", "0", "0">>>>,
     <<<<"n", "i", "g", "h", "t">>, <<"2", "0", ":", "0", "0">>>>,
     <<<<"d", "a", "w", "n">>, <<"0", "6", ":", "0", "0">>>>,
     <<<<"d", "u", "s", "k">>, <<"1", "8", ":", "0", "0">>>>,
     <<<<"l", "u", "n", "c", "h">>, <<"1", "2", ":", "0", "0">>>>,
     <<<<"b", "r", "e", "a", "k", "f", "a", "s", "t">>, <<"0", "8", ":", "0", "0">>>>,
     <<<<"d", "i", "n", "n", "e", "r">>, <<"1", "9", ":", "0", "0">>>>,
     <<<<"b", "r", "u", "n", "c", "h">>, <<"1", "0", ":", "3", "0">>>>,
     <<<<"e", "o", "d">>, <<"1", "7", ":", "0", "0">>>>,
     <<<<"c", "o", "b">>, <<"1", "7", ":", "0", "0">>>>,
     <<<<"e", "a", "r", "l", "y", " ", "m", "o", "r", "n", "i", "n", "g">>, <<"0", "7", ":", "0", "0">>>>,
     <<<<"l", "a", "t", "e", " ", "n", "i", "g", "h", "t">>, <<"2", "3", ":", "0", "0">>>> >>

\* the index of the first entry of a table whose key occurs in s, 0 if none
RECURSIVE FirstIncluded(_, _, _)
FirstIncluded(table, s, k) ==
  IF k > Len(table) THEN 0
  ELSE IF includes(s, table[k][1]) THEN k
  ELSE FirstIncluded(table, s, k + 1)

\* the position of the first character of class C at or after i, 0 if none
RECURSIVE FirstIn(_, _, _)
FirstIn(s, i, C) ==
  IF i > Len(s) THEN 0
  ELSE IF s[i] \in C THEN i
  ELSE FirstIn(s, i + 1, C)

\* the first alternative of a list that occurs in s at position i, the empty
\* string if none does
FirstAlt(s, i, alts) ==
  LET ks == {k \in 1..Len(alts) : MatchAt(s, i, alts[k])}
  IN IF ks = {} THEN <<>> ELSE alts[Min(ks)]

\* the match of /(\d{1,2})(?::(\d{2}))?\s*(<meridian>)?/ in s: it starts at
\* the first digit of s. meridians lists the alternatives in order; the
\* comparison is made on text (s, or s in lower case for the /i flag).
\* The result is [found, hours, minutes, meridian, from, end].
TimeRegexMatch(s, text, meridians) ==
  With(FirstIn(s, 1, Digits), LAMBDA i :
    LET nh == IF i + 1 <= Len(s) /\ s[i + 1] \in Digits THEN 2 ELSE 1
        p  == i + nh
        hasMin == /\ p + 2 <= Len(s)
                  /\ s[p] = ":"
                  /\ s[p + 1] \in Digits
                  /\ s[p + 2] \in Digits
        q  == IF hasMin THEN p + 3 ELSE p
    IN IF i = 0 THEN [found |-> FALSE]
       ELSE With(q + RunLen(s, q, Spaces), LAMBDA r :
            With(FirstAlt(text, r, meridians), LAMBDA mer :
              [found    |-> TRUE,
               hours    |-> DigitsValue(SubSeq(s, i, p - 1)),
               minutes  |-> IF hasMin THEN DigitsValue(SubSeq(s, p + 1, p + 2)) ELSE 0,
               meridian |-> IF mer = <<>> THEN None ELSE Some(mer),
               from     |-> i,
               end      |-> r + Len(mer) - 1])))

\* the time of a match with the rule for 12 am left out
timeOfMatchNoMidnight(lowerMessage, match) ==
  LET meridian == match.meridian
      h0 == match.hours
      h1 == IF meridian # None /\ includes(Val(meridian), <<"p">>) /\ h0 < 12
            THEN h0 + 12 ELSE h0
  IN padStart2(toString(h1)) \o <<":">> \o padStart2(toString(match.minutes))

\* the time of a match of the first pattern, as extractTime formats it
timeOfMatch(lowerMessage, match) ==
  LET meridian == match.meridian
      h0 == match.hours
      h1 == IF meridian # None /\ includes(Val(meridian), <<"p">>) /\ h0 < 12
            THEN h0 + 12 ELSE h0
      h2 == IF meridian # None /\ includes(Val(meridian), <<"a">>) /\ h1 = 12
            THEN 0 ELSE h1
      h3 == IF /\ meridian = None
               /\ h2 < 12
               /\ (includes(lowerMessage, <<"e", "v", "e", "n", "i", "n", "g">>) \/ includes(lowerMessage, <<"n", "i", "g", "h", "t">>))
            THEN h2 + 12 ELSE h2
  IN padStart2(toString(h3)) \o <<":">> \o padStart2(toString(match.minutes))

\* extractTime: the named expressions first, then the list of patterns.
\* The first pattern matches every text that holds a digit and the four
\* others each need a digit, so the first pattern decides alone.
extractTime(message) ==
  With(FirstIncluded(TIME_EXPRESSIONS, toLowerCase(message), 1), LAMBDA named :
    IF named # 0 THEN Some(TIME_EXPRESSIONS[named][2])
    ELSE With(TimeRegexMatch(message, toLowerCase(message),
                             <<<<"a", "m">>, <<"p", "m">>, <<"a", ".", "m", ".">>, <<"p", ".", "m", ".">>>>), LAMBDA match :
           IF match.found THEN Some(timeOfMatch(toLowerCase(message), match))
           ELSE None))

\* validateEmail: /^[a-zA-Z0-9._%+-]+@[a-zA-Z0-9.-]+\.[a-zA-Z]{2,}$/
validateEmail(email) ==
  LET LocalChars  == Letters \cup Digits \cup {".", "_", "%", "+", "-"}
      DomainChars == Letters \cup Digits \cup {".", "-"}
      r1 == RunLen(email, 1, LocalChars)
      at == r1 + 1
      ok == /\ r1 >= 1
            /\ at <= Len(email)
            /\ email[at] = "@"
            /\ \E j \in (at + 2)..(Len(email) - 2) :
                 /\ email[j] = "."
                 /\ \A k \in (at + 1)..(j - 1) : email[k] \in DomainChars
                 /\ \A k \in (j + 1)..Len(email) : email[k] \in Letters
  IN IF ok THEN Some(email) ELSE None

\* the end of the match of /[\w\.-]+@[\w\.-]+\.\w+/ that starts at s[i],
\* 0 if there is none: both + are greedy, so the domain runs to the last dot
\* of its run that a word character follows
EmailEndAt(s, i) ==
  LET EC == WordChars \cup {".", "-"}
      r1 == RunLen(s, i, EC)
      at == i + r1
      r2 == RunLen(s, at + 1, EC)
      js == {j \in (at + 2)..(at + r2) :
               s[j] = "." /\ j + 1 <= Len(s) /\ s[j + 1] \in WordChars}
  IN IF r1 >= 1 /\ at <= Len(s) /\ s[at] = "@" /\ js # {}
     THEN With(Max(js), LAMBDA dot : dot + RunLen(s, dot + 1, WordChars))
     ELSE 0

\* message.match(emailPattern) with the global flag: every match, left to right
RECURSIVE emailMatches(_, _)
emailMatches(s, from) ==
  IF from > Len(s) THEN <<>>
  ELSE With(EmailEndAt(s, from), LAMBDA end :
         IF end # 0 THEN <<SubSeq(s, from, end)>> \o emailMatches(s, end + 1)
         ELSE emailMatches(s, from + 1))

\* group 1 of /(?:on|for|next|today|tomorrow)\s*(monday|...|sunday|tomorrow|today)?/i:
\* the leftmost lead word decides where the match starts, whatever follows it
dateToken(message) ==
  LET lower == toLowerCase(message)
      leads == <<<<"o", "n">>, <<"f", "o", "r">>, <<"n", "e", "x", "t">>, <<"t", "o", "d", "a", "y">>, <<"t", "o", "m", "o", "r", "r", "o", "w">>>>
      words == <<<<"m", "o", "n", "d", "a", "y">>, <<"t", "u", "e", "s", "d", "a", "y">>, <<"w", "e", "d", "n", "e", "s", "d", "a", "y">>, <<"t", "h", "u", "r", "s", "d", "a", "y">>, <<"f", "r", "i", "d", "a", "y">>,
                 <<"s", "a", "t", "u", "r", "d", "a", "y">>, <<"s", "u", "n", "d", "a", "y">>, <<"t", "o", "m", "o", "r", "r", "o", "w">>, <<"t", "o", "d", "a", "y">>>>
  IN With({i \in 1..Len(lower) : FirstAlt(lower, i, leads) # <<>>}, LAMBDA starts :
       IF starts = {} THEN None
       ELSE With(Min(starts) + Len(FirstAlt(lower, Min(starts), leads)), LAMBDA p :
            With(p + RunLen(lower, p, Spaces), LAMBDA q :
            With(FirstAlt(lower, q, words), LAMBDA w :
              IF w = <<>> THEN None
              ELSE Some(SubSeq(message, q, q + Len(w) - 1))))))

\* the duration of /(\d+)\s*(?:min|minutes?|hrs?|hours?)/i, converted as the
\* source converts it: the matched text must hold "hour" to count as hours
durationOf(message) ==
  LET lower == toLowerCase(message)
      units == <<<<"m", "i", "n">>, <<"m", "i", "n", "u", "t", "e", "s">>, <<"m", "i", "n", "u", "t", "e">>, <<"h", "r", "s">>, <<"h", "r">>, <<"h", "o", "u", "r", "s">>, <<"h", "o", "u", "r">>>>
      \* the unit of a match that starts at the digit at i: the run of digits,
      \* white space, then a unit; the empty string if there is none
      unitAt(i) ==
        With(i + RunLen(lower, i, Digits), LAMBDA p :
          FirstAlt(lower, p + RunLen(lower, p, Spaces), units))
  IN With({i \in 1..Len(lower) : lower[i] \in Digits /\ unitAt(i) # <<>>}, LAMBDA starts :
       IF starts = {} THEN None
       ELSE With(Min(starts), LAMBDA i :
            With(DigitsValue(SubSeq(lower, i, i + RunLen(lower, i, Digits) - 1)), LAMBDA num :
              IF includes(unitAt(i), <<"h", "o", "u", "r">>) THEN Some(num * 60)
              ELSE Some(num))))

\* group 1 of /(?:with description|description:?|about|regarding)\s*["']?([^"']+)["']?/i
descriptionOf(message) ==
  LET lower == toLowerCase(message)
      leads == <<<<"w", "i", "t", "h", " ", "d", "e", "s", "c", "r", "i", "p", "t", "i", "o", "n">>, <<"d", "e", "s", "c", "r", "i", "p", "t", "i", "o", "n", ":">>, <<"d", "e", "s", "c", "r", "i", "p", "t", "i", "o", "n">>,
                 <<"a", "b", "o", "u", "t">>, <<"r", "e", "g", "a", "r", "d", "i", "n", "g">>>>
      Quotes == {"'", "\""}
      NonQuote == {lower[k] : k \in 1..Len(lower)} \ Quotes
      \* where group 1 starts for a match whose lead word is at i, 0 if none
      groupAt(i) ==
        With(i + Len(FirstAlt(lower, i, leads)), LAMBDA p :
        With(p + RunLen(lower, p, Spaces), LAMBDA q :
          IF q <= Len(lower) /\ lower[q] \in Quotes
             /\ q + 1 <= Len(lower) /\ lower[q + 1] \notin Quotes
          THEN q + 1
          ELSE IF q <= Len(lower) /\ lower[q] \notin Quotes THEN q
          ELSE IF q > p THEN q - 1
          ELSE 0))
  IN With({i \in 1..Len(lower) :
             FirstAlt(lower, i, leads) # <<>> /\ groupAt(i) # 0}, LAMBDA starts :
       IF starts = {} THEN None
       ELSE With(groupAt(Min(starts)), LAMBDA g :
              Some(SubSeq(message, g, g + RunLen(lower, g, NonQuote) - 1))))

\* analyzeMeetingRequest: the fields of extractedInfo the dialogue reads
analyzeMeetingRequest(message) ==
  LET hasToday == includes(toLowerCase(message), <<"t", "o", "d", "a", "y">>)
      noDesc == includes(toLowerCase(message), <<"n", "o", " ", "d", "e", "s", "c", "r", "i", "p", "t", "i", "o", "n">>)
  IN [extractedInfo |->
        [time        |-> With(TimeRegexMatch(message, message,
                                             <<<<"a", "m">>, <<"p", "m">>, <<"A", "M">>, <<"P", "M">>>>),
                              LAMBDA timeMatch :
                                IF timeMatch.found
                                THEN extractTime(SubSeq(message, timeMatch.from,
                                                        timeMatch.end))
                                ELSE None),
         date        |-> IF hasToday THEN Some(<<"t", "o", "d", "a", "y">>) ELSE dateToken(message),
         duration    |-> durationOf(message),
         emails      |-> emailMatches(message, 1),
         description |-> IF noDesc THEN None ELSE descriptionOf(message)]]

(***************************************************************************)
(* Intent classifier                                                       *)
(***************************************************************************)
\* /\bset\s*up\b/
HasSetUp(s) ==
  \E i \in 1..Len(s) :
    /\ MatchAt(s, i, <<"s", "e", "t">>)
    /\ WordBoundary(s, i)
    /\ LET p == i + 3 + RunLen(s, i + 3, Spaces)
       IN MatchAt(s, p, <<"u", "p">>) /\ WordBoundary(s, p + 2)

MeetingKeywords ==
  {<<"s", "c", "h", "e", "d", "u", "l", "e">>, <<"b", "o", "o", "k">>, <<"a", "r", "r", "a", "n", "g", "e">>, <<"p", "l", "a", "n">>,
   <<"u", "p", "d", "a", "t", "e">>, <<"c", "h", "a", "n", "g", "e">>, <<"m", "o", "d", "i", "f", "y">>,
   <<"r", "e", "s", "c", "h", "e", "d", "u", "l", "e">>, <<"m", "o", "v", "e">>, <<"p", "o", "s", "t", "p", "o", "n", "e">>,
   <<"c", "a", "n", "c", "e", "l">>, <<"d", "e", "l", "e", "t", "e">>,
   <<"m", "e", "e", "t", "i", "n", "g">>, <<"c", "a", "l", "l">>, <<"a", "p", "p", "o", "i", "n", "t", "m", "e", "n", "t">>}

isMeetingRequest(message) ==
  LET lower == toLowerCase(message)
  IN HasSetUp(lower) \/ \E w \in MeetingKeywords : HasWord(lower, w)

\* /^hi\b/i, /^hello\b/i, /^hey\b/i, /^greetings\b/i,
\* /^good\s*(morning|afternoon|evening)\b/i on the trimmed message
isGreeting(message) ==
  LET s == toLowerCase(trim(message))
  IN \/ \E w \in {<<"h", "i">>, <<"h", "e", "l", "l", "o">>, <<"h", "e", "y">>, <<"g", "r", "e", "e", "t", "i", "n", "g", "s">>} :
          MatchAt(s, 1, w) /\ WordBoundary(s, 1 + Len(w))
     \/ /\ MatchAt(s, 1, <<"g", "o", "o", "d">>)
        /\ LET p == 5 + RunLen(s, 5, Spaces)
           IN \E w \in {<<"m", "o", "r", "n", "i", "n", "g">>, <<"a", "f", "t", "e", "r", "n", "o", "o", "n">>, <<"e", "v", "e", "n", "i", "n", "g">>} :
                MatchAt(s, p, w) /\ WordBoundary(s, p + Len(w))

\* /^how are you/i, /^how(')?s it going/i, /^how do you feel/i, /^how(')?re you/i
isHowAreYou(message) ==
  LET s == toLowerCase(trim(message))
  IN \E w \in {<<"h", "o", "w", " ", "a", "r", "e", " ", "y", "o", "u">>, <<"h", "o", "w", "s", " ", "i", "t", " ", "g", "o", "i", "n", "g">>, <<"h", "o", "w", "'", "s", " ", "i", "t", " ", "g", "o", "i", "n", "g">>,
               <<"h", "o", "w", " ", "d", "o", " ", "y", "o", "u", " ", "f", "e", "e", "l">>, <<"h", "o", "w", "r", "e", " ", "y", "o", "u">>, <<"h", "o", "w", "'", "r", "e", " ", "y", "o", "u">>} :
       MatchAt(s, 1, w)

\* /\b(cancel|delete)\b.*\b(meeting|appointment)\b/ on the lower-cased message
isCancelPhrase(message) ==
  LET s == toLowerCase(message)
  IN \E i, j \in 1..Len(s) :
       /\ \E v \in {<<"c", "a", "n", "c", "e", "l">>, <<"d", "e", "l", "e", "t", "e">>} :
            /\ MatchAt(s, i, v) /\ WordBoundary(s, i) /\ WordBoundary(s, i + Len(v))
            /\ j >= i + Len(v)
       /\ \E n \in {<<"m", "e", "e", "t", "i", "n", "g">>, <<"a", "p", "p", "o", "i", "n", "t", "m", "e", "n", "t">>} :
            MatchAt(s, j, n) /\ WordBoundary(s, j) /\ WordBoundary(s, j + Len(n))

\* /\b(check|list|show|view|get)\b.*\b(meetings|schedule|calendar)\b/
isListPhrase(message) ==
  LET s == toLowerCase(message)
  IN \E i, j \in 1..Len(s) :
       /\ \E v \in {<<"c", "h", "e", "c", "k">>, <<"l", "i", "s", "t">>, <<"s", "h", "o", "w">>, <<"v", "i", "e", "w">>, <<"g", "e", "t">>} :
            /\ MatchAt(s, i, v) /\ WordBoundary(s, i) /\ WordBoundary(s, i + Len(v))
            /\ j >= i + Len(v)
       /\ \E n \in {<<"m", "e", "e", "t", "i", "n", "g", "s">>, <<"s", "c", "h", "e", "d", "u", "l", "e">>, <<"c", "a", "l", "e", "n", "d", "a", "r">>} :
            MatchAt(s, j, n) /\ WordBoundary(s, j) /\ WordBoundary(s, j + Len(n))

\* /\b(update|change|move|postpone|reschedule)\b/
isUpdatePhrase(message) ==
  LET s == toLowerCase(message)
  IN \E w \in {<<"u", "p", "d", "a", "t", "e">>, <<"c", "h", "a", "n", "g", "e">>, <<"m", "o", "v", "e">>, <<"p", "o", "s", "t", "p", "o", "n", "e">>, <<"r", "e", "s", "c", "h", "e", "d", "u", "l", "e">>} :
       HasWord(s, w)

(***************************************************************************)
(* Date resolver                                                           *)
(***************************************************************************)
\* a test that also turns today down
isValidFutureDateStrict(date, today) == date > today

\* isValidFutureDate: on or after today at midnight
isValidFutureDate(date, today) == date >= today

\* the named relative expressions, in declaration order
DATE_EXPRESSIONS ==
  << <<<<"t", "o", "d", "a", "y">>>>, <<<<"t", "o", "m", "o", "r", "r", "o", "w">>>>, <<<<"d", "a", "y", " ", "a", "f", "t", "e", "r", " ", "t", "o", "m", "o", "r", "r", "o", "w">>>>,
     <<<<"n", "e", "x", "t", " ", "w", "e", "e", "k">>>>, <<<<"w", "e", "e", "k", "e", "n", "d">>>>, <<<<"m", "o", "n", "t", "h", " ", "e", "n", "d">>>>,
     <<<<"n", "e", "x", "t", " ", "m", "o", "n", "t", "h">>>>, <<<<"c", "h", "r", "i", "s", "t", "m", "a", "s">>>>, <<<<"n", "e", "w", " ", "y", "e", "a", "r">>>> >>

\* the function of entry k of DATE_EXPRESSIONS applied to the current date
dateExpression(k, date) ==
  CASE k = 1 -> date
    [] k = 2 -> date + 1
    [] k = 3 -> date + 2
    [] k = 4 -> date + 7
    [] k = 5 -> date + (6 - getDay(date))
    [] k = 6 -> MakeDate(getFullYear(date), getMonth(date) + 1, 0)
    [] k = 7 -> MakeDate(getFullYear(date), getMonth(date) + 1, getDate(date))
    [] k = 8 -> MakeDate(getFullYear(date), 11, 25)
    [] k = 9 -> MakeDate(getFullYear(date) + 1, 0, 1)

\* /^(\d{1,2})[-\/](\d{1,2})(?:[-\/](\d{4}))?$/: [found, day, month, year]
numericDateMatch(s) ==
  LET Sep == {"-", "/"}
  IN With(RunLen(s, 1, Digits), LAMBDA n1 :
     With(RunLen(s, n1 + 2, Digits), LAMBDA n2 :
       LET p == n1 + 1
           q == p + 1 + n2
           head == /\ n1 \in {1, 2}
                   /\ p <= Len(s) /\ s[p] \in Sep
                   /\ n2 \in {1, 2}
           short == head /\ q = Len(s) + 1
           long  == /\ head /\ q <= Len(s) /\ s[q] \in Sep
                    /\ RunLen(s, q + 1, Digits) = 4 /\ q + 4 = Len(s)
       IN IF short \/ long
          THEN [found |-> TRUE,
                day   |-> DigitsValue(SubSeq(s, 1, n1)),
                month |-> DigitsValue(SubSeq(s, p + 1, p + n2)),
                year  |-> IF long THEN Some(DigitsValue(SubSeq(s, q + 1, q + 4)))
                          ELSE None]
          ELSE [found |-> FALSE]))

monthNames ==
  <<<<"j", "a", "n", "u", "a", "r", "y">>, <<"f", "e", "b", "r", "u", "a", "r", "y">>, <<"m", "a", "r", "c", "h">>, <<"a", "p", "r", "i", "l">>, <<"m", "a", "y">>, <<"j", "u", "n", "e">>, <<"j", "u", "l", "y">>,
    <<"a", "u", "g", "u", "s", "t">>, <<"s", "e", "p", "t", "e", "m", "b", "e", "r">>, <<"o", "c", "t", "o", "b", "e", "r">>, <<"n", "o", "v", "e", "m", "b", "e", "r">>, <<"d", "e", "c", "e", "m", "b", "e", "r">>>>

\* the spelled ordinals, in declaration order; entry k stands for day k
dayNumbers ==
  <<<<"f", "i", "r", "s", "t">>, <<"s", "e", "c", "o", "n", "d">>, <<"t", "h", "i", "r", "d">>, <<"f", "o", "u", "r", "t", "h">>, <<"f", "i", "f", "t", "h">>, <<"s", "i", "x", "t", "h">>, <<"s", "e", "v", "e", "n", "t", "h">>,
    <<"e", "i", "g", "h", "t", "h">>, <<"n", "i", "n", "t", "h">>, <<"t", "e", "n", "t", "h">>, <<"e", "l", "e", "v", "e", "n", "t", "h">>, <<"t", "w", "e", "l", "f", "t", "h">>, <<"t", "h", "i", "r", "t", "e", "e", "n", "t", "h">>,
    <<"f", "o", "u", "r", "t", "e", "e", "n", "t", "h">>, <<"f", "i", "f", "t", "e", "e", "n", "t", "h">>, <<"s", "i", "x", "t", "e", "e", "n", "t", "h">>, <<"s", "e", "v", "e", "n", "t", "e", "e", "n", "t", "h">>, <<"e", "i", "g", "h", "t", "e", "e", "n", "t", "h">>,
    <<"n", "i", "n", "e", "t", "e", "e", "n", "t", "h">>, <<"t", "w", "e", "n", "t", "i", "e", "t", "h">>, <<"t", "w", "e", "n", "t", "y", "-", "f", "i", "r", "s", "t">>, <<"t", "w", "e", "n", "t", "y", "-", "s", "e", "c", "o", "n", "d">>,
    <<"t", "w", "e", "n", "t", "y", "-", "t", "h", "i", "r", "d">>, <<"t", "w", "e", "n", "t", "y", "-", "f", "o", "u", "r", "t", "h">>, <<"t", "w", "e", "n", "t", "y", "-", "f", "i", "f", "t", "h">>, <<"t", "w", "e", "n", "t", "y", "-", "s", "i", "x", "t", "h">>,
    <<"t", "w", "e", "n", "t", "y", "-", "s", "e", "v", "e", "n", "t", "h">>, <<"t", "w", "e", "n", "t", "y", "-", "e", "i", "g", "h", "t", "h">>, <<"t", "w", "e", "n", "t", "y", "-", "n", "i", "n", "t", "h">>, <<"t", "h", "i", "r", "t", "i", "e", "t", "h">>,
    <<"t", "h", "i", "r", "t", "y", "-", "f", "i", "r", "s", "t">>>>

\* group (\d{4}) of the optional tail (?:\s+(\d{4}))? at position p, None if
\* the tail does not match
yearTail(s, p) ==
  With(RunLen(s, p, Spaces), LAMBDA w :
    IF w >= 1 /\ RunLen(s, p + w, Digits) >= 4
    THEN Some(DigitsValue(SubSeq(s, p + w, p + w + 3)))
    ELSE None)

\* the position after \s+ at p, 0 if no white space is at p
afterSpaces(s, p) ==
  With(RunLen(s, p, Spaces), LAMBDA w : IF w >= 1 THEN p + w ELSE 0)

\* where the month prefix mon starts when (\d{k})(?:st|nd|rd|th)?\s+<mon>
\* matches at i, 0 if it does not match there
monthAfterDay(s, mon, i, k) ==
  IF \A d \in 0..(k - 1) : i + d <= Len(s) /\ s[i + d] \in Digits
  THEN With(afterSpaces(s, IF FirstAlt(s, i + k, <<<<"s", "t">>, <<"n", "d">>, <<"r", "d">>, <<"t", "h">>>>) # <<>>
                           THEN i + k + 2 ELSE i + k),
            LAMBDA p : IF p # 0 /\ MatchAt(s, p, mon) THEN p ELSE 0)
  ELSE 0

\* /(\d{1,2})(?:st|nd|rd|th)?\s+<mon>\w*(?:\s+(\d{4}))?/ for the three-letter
\* prefix mon: [found, day, year]
dayMonthMatch(s, mon) ==
  With({i \in 1..Len(s) :
          monthAfterDay(s, mon, i, 2) # 0 \/ monthAfterDay(s, mon, i, 1) # 0},
       LAMBDA starts :
    IF starts = {} THEN [found |-> FALSE]
    ELSE With(Min(starts), LAMBDA i :
         With(IF monthAfterDay(s, mon, i, 2) # 0 THEN 2 ELSE 1, LAMBDA k :
         With(monthAfterDay(s, mon, i, k) + 3, LAMBDA e :
           [found |-> TRUE,
            day   |-> DigitsValue(SubSeq(s, i, i + k - 1)),
            year  |-> yearTail(s, e + RunLen(s, e, WordChars))]))))

\* where monthName starts when <dayWord>\s+<monthName> matches at i, 0 if it
\* does not match there
monthAfterWord(s, dayWord, monthName, i) ==
  IF MatchAt(s, i, dayWord)
  THEN With(afterSpaces(s, i + Len(dayWord)),
            LAMBDA p : IF p # 0 /\ MatchAt(s, p, monthName) THEN p ELSE 0)
  ELSE 0

\* /<dayWord>\s+<monthName>(?:\s+(\d{4}))?/: [found, year]
ordinalMonthMatch(s, dayWord, monthName) ==
  With({i \in 1..Len(s) : monthAfterWord(s, dayWord, monthName, i) # 0},
       LAMBDA starts :
    IF starts = {} THEN [found |-> FALSE]
    ELSE [found |-> TRUE,
          year  |-> yearTail(s, monthAfterWord(s, dayWord, monthName, Min(starts))
                                + Len(monthName))])

\* the first spelled ordinal that matches with month mi, 0 if none does
firstOrdinal(s, mi) ==
  With({di \in 1..Len(dayNumbers) :
          ordinalMonthMatch(s, dayNumbers[di], monthNames[mi]).found},
       LAMBDA ordinals : IF ordinals = {} THEN 0 ELSE Min(ordinals))

\* the year of a match, the current year when the pattern gave none
yearOr(year, today) == IF year # None THEN Val(year) ELSE getFullYear(today)

\* the scan of the twelve month names: for each month the numbered pattern,
\* then every spelled ordinal in turn; the first match returns. The result
\* is [found, date].
monthScan(s, today) ==
  With({mi \in 1..12 :
          \/ dayMonthMatch(s, SubSeq(monthNames[mi], 1, 3)).found
          \/ firstOrdinal(s, mi) # 0},
       LAMBDA months :
    IF months = {} THEN [found |-> FALSE]
    ELSE With(Min(months), LAMBDA mi :
         With(dayMonthMatch(s, SubSeq(monthNames[mi], 1, 3)), LAMBDA numbered :
           IF numbered.found
           THEN [found |-> TRUE,
                 date  |-> MakeDate(yearOr(numbered.year, today), mi - 1, numbered.day)]
           ELSE With(firstOrdinal(s, mi), LAMBDA di :
                  [found |-> TRUE,
                   date  |-> MakeDate(yearOr(ordinalMonthMatch(s, dayNumbers[di],
                                                               monthNames[mi]).year,
                                             today),
                                      mi - 1, di)]))))

\* new Date(string) of the V8 engine, for the texts the model sends:
\*  - a text without a digit is an Invalid Date;
\*  - YYYY-MM-DD is that date;
\*  - a lone number n is read by the legacy parser as a month (1..12, of the
\*    year 2001), as a year (0, or 32 and more; 0..49 mean 2000..2049 and
\*    50..99 mean 1950..1999) or not at all (13..31);
\*  - a text that holds a clock time and no day is an Invalid Date.
directDate(input) ==
  LET iso == /\ Len(input) = 10
             /\ \A k \in {1, 2, 3, 4, 6, 7, 9, 10} : input[k] \in Digits
             /\ input[5] = "-" /\ input[8] = "-"
      lone == RunLen(input, 1, Digits) >= 1 /\ RunLen(input, 1, Digits) = Len(input)
  IN IF iso
     THEN With(DigitsValue(SubSeq(input, 6, 7)), LAMBDA im :
          With(DigitsValue(SubSeq(input, 9, 10)), LAMBDA id :
            IF im \in 1..12 /\ id \in 1..31
            THEN Some(MakeDate(DigitsValue(SubSeq(input, 1, 4)), im - 1, id))
            ELSE None))
     ELSE IF lone
     THEN With(DigitsValue(input), LAMBDA v :
            IF v \in 1..12 THEN Some(MakeDate(2001, v - 1, 1))
            ELSE IF v \in 13..31 THEN None
            ELSE IF v <= 49 THEN Some(MakeDate(2000 + v, 0, 1))
            ELSE IF v <= 99 THEN Some(MakeDate(1900 + v, 0, 1))
            ELSE Some(MakeDate(v, 0, 1)))
     ELSE None

\* the date when it is today or later
futureDate(date, today) == IF isValidFutureDate(date, today) THEN Some(date) ELSE None

\* parseDateInput(input), today being the current date
parseDateInput(input, today) ==
  With(toLowerCase(input), LAMBDA lowerInput :
  With(FirstIncluded(DATE_EXPRESSIONS, lowerInput, 1), LAMBDA named :
    IF named # 0 THEN Some(dateExpression(named, today))
    ELSE With(numericDateMatch(lowerInput), LAMBDA numericMatch :
      IF numericMatch.found
      THEN futureDate(MakeDate(yearOr(numericMatch.year, today),
                               numericMatch.month - 1, numericMatch.day), today)
      ELSE With(monthScan(lowerInput, today), LAMBDA scan :
        IF scan.found THEN futureDate(scan.date, today)
        ELSE With(directDate(input), LAMBDA directDateValue :
          IF directDateValue # None
          THEN futureDate(Val(directDateValue), today)
          ELSE None)))))
(***************************************************************************)
(* Bounds and inputs                                                       *)
(***************************************************************************)
\* the users the maps have room for
NumUsers == 2

Users == 1..NumUsers

\* the users that send messages, where a specification does not say
\* otherwise
NumSenders == 1

Senders == 1..Min({NumSenders, NumUsers})

\* the most calls of createMeeting one user makes in a behaviour
MaxCreateCalls == 2

\* the most user turns a stored conversation holds
MaxTurns == 1

\* the most user turns a stored conversation holds in the chat specification
MaxChatTurns == 4

\* the minutes the chat specification runs for
MaxNow == 6

\* the current dates a behaviour may run on: 3 November 2026 (a Tuesday) and
\* 31 December 2026, whose tomorrow is in the next year
TodayChoices == {MakeDate(2026, 10, 3), MakeDate(2026, 11, 31)}

MsgFull == <<"s", "c", "h", "e", "d", "u", "l", "e", " ", "a", " ", "m", "e", "e", "t", "i", "n", "g", " ", "w", "i", "t", "h", " ", "j", "o", "h", "n", "@", "x", ".", "c", "o", "m", " ", "t", "o", "m", "o", "r", "r", "o", "w", " ", "a", "t", " ", "3", "p", "m", " ", "f", "o", "r", " ", "3", "0", " ", "m", "i", "n", "u", "t", "e", "s">>

MsgFullFor == <<"b", "o", "o", "k", " ", "a", " ", "c", "a", "l", "l", " ", "w", "i", "t", "h", " ", "j", "o", "h", "n", "@", "x", ".", "c", "o", "m", " ", "f", "o", "r", " ", "t", "o", "m", "o", "r", "r", "o", "w", " ", "a", "t", " ", "3", "p", "m", " ", "f", "o", "r", " ", "3", "0", " ", "m", "i", "n", "u", "t", "e", "s">>

MsgFullToday == <<"s", "c", "h", "e", "d", "u", "l", "e", " ", "a", " ", "m", "e", "e", "t", "i", "n", "g", " ", "t", "o", "d", "a", "y", " ", "a", "t", " ", "3", "p", "m", " ", "w", "i", "t", "h", " ", "j", "o", "h", "n", "@", "x", ".", "c", "o", "m", " ", "f", "o", "r", " ", "3", "0", " ", "m", "i", "n", "u", "t", "e", "s">>

MsgNoDuration == <<"b", "o", "o", "k", " ", "a", " ", "c", "a", "l", "l", " ", "w", "i", "t", "h", " ", "j", "o", "h", "n", "@", "x", ".", "c", "o", "m", " ", "f", "o", "r", " ", "t", "o", "m", "o", "r", "r", "o", "w", " ", "a", "t", " ", "3", "p", "m">>

MsgNoMail == <<"m", "e", "e", "t", "i", "n", "g", " ", "f", "o", "r", " ", "t", "o", "m", "o", "r", "r", "o", "w", " ", "a", "t", " ", "3", "p", "m">>

MsgBare == <<"s", "c", "h", "e", "d", "u", "l", "e", " ", "a", " ", "m", "e", "e", "t", "i", "n", "g">>

MsgTimeMail == <<"s", "e", "t", " ", "u", "p", " ", "a", " ", "c", "a", "l", "l", " ", "a", "t", " ", "5", "p", "m", " ", "w", "i", "t", "h", " ", "a", "n", "n", "@", "y", ".", "o", "r", "g">>

MsgForTomorrow == <<"m", "e", "e", "t", "i", "n", "g", " ", "f", "o", "r", " ", "t", "o", "m", "o", "r", "r", "o", "w">>

MsgCancel == <<"c", "a", "n", "c", "e", "l">>

MsgNo == <<"n", "o">>

MsgStop == <<"p", "l", "e", "a", "s", "e", " ", "s", "t", "o", "p">>

MsgQuit == <<"q", "u", "i", "t">>

MsgExit == <<"e", "x", "i", "t">>

MsgNevermind == <<"n", "e", "v", "e", "r", "m", "i", "n", "d">>

MsgNeverMind == <<"N", "e", "v", "e", "r", " ", "m", "i", "n", "d">>

MsgYes == <<"y", "e", "s">>

MsgYesCaps == <<"Y", "e", "s", " ", "p", "l", "e", "a", "s", "e">>

MsgMaybe == <<"m", "a", "y", "b", "e">>

MsgTomorrow == <<"t", "o", "m", "o", "r", "r", "o", "w">>

MsgNoon == <<"n", "o", "o", "n">>

Msg3pm == <<"3", "p", "m">>

MsgEmail == <<"j", "o", "h", "n", "@", "x", ".", "c", "o", "m">>

MsgBadEmail == <<"j", "o", "h", "n", " ", "a", "t", " ", "x">>

Msg30 == <<"3", "0">>

Msg0 == <<"0">>

Msg481 == <<"4", "8", "1">>

MsgSkip == <<"S", "k", "i", "p">>

MsgHello == <<"h", "e", "l", "l", "o">>

MsgList == <<"s", "h", "o", "w", " ", "m", "y", " ", "c", "a", "l", "e", "n", "d", "a", "r">>

MsgLongCall == <<"b", "o", "o", "k", " ", "a", " ", "c", "a", "l", "l", " ", "w", "i", "t", "h", " ", "j", "o", "h", "n", "@", "x", ".", "c", "o", "m", " ", "f", "o", "r", " ", "t", "o", "m", "o", "r", "r", "o", "w", " ", "a", "t", " ", "3", "p", "m", " ", "f", "o", "r", " ", "6", "0", "0", " ", "m", "i", "n", "u", "t", "e", "s">>

Msg1 == <<"1">>

Msg480 == <<"4", "8", "0">>

MsgCheckSchedule == <<"c", "h", "e", "c", "k", " ", "m", "y", " ", "s", "c", "h", "e", "d", "u", "l", "e">>

MsgCancelMeeting == <<"c", "a", "n", "c", "e", "l", " ", "m", "y", " ", "m", "e", "e", "t", "i", "n", "g", " ", "t", "o", "m", "o", "r", "r", "o", "w">>

MsgReschedule == <<"r", "e", "s", "c", "h", "e", "d", "u", "l", "e", " ", "m", "y", " ", "m", "e", "e", "t", "i", "n", "g">>

MsgUpdate == <<"p", "l", "e", "a", "s", "e", " ", "u", "p", "d", "a", "t", "e", " ", "i", "t">>

MsgHelloCaps == <<"H", "e", "l", "l", "o">>

MsgHowAreYou == <<"h", "o", "w", " ", "a", "r", "e", " ", "y", "o", "u">>

MsgThanks == <<"t", "h", "a", "n", "k", "s">>

\* what a user may send while a dialogue is open
DialogueMessages ==
  {MsgCancel, MsgNo, MsgStop, MsgQuit, MsgExit, MsgNevermind, MsgNeverMind,
   MsgYes, MsgYesCaps, MsgMaybe, MsgTomorrow, MsgNoon, Msg3pm, MsgEmail,
   MsgBadEmail, Msg30, Msg0, Msg481, MsgSkip, MsgBare}

\* what a user may send while no dialogue is open
IdleMessages ==
  {MsgFull, MsgFullFor, MsgFullToday, MsgNoDuration, MsgNoMail, MsgBare,
   MsgTimeMail, MsgForTomorrow,
   MsgCancel, MsgYes, MsgHello, MsgList}

\* what a user may send in the intent specification while a dialogue is open
IntentDialogueMessages ==
  {Msg0, Msg1, Msg480, Msg481, MsgMaybe, MsgNo, MsgHello, MsgList, MsgSkip,
   MsgYes, MsgCancel}

\* what a user may send in the intent specification while no dialogue is
\* open
IntentIdleMessages ==
  {MsgLongCall, MsgNoDuration, MsgCheckSchedule, MsgCancelMeeting,
   MsgReschedule, MsgUpdate, MsgList, MsgHello, MsgThanks, MsgCancel, MsgStop}

\* what a user may send in the chat specification while a dialogue is open
ChatDialogueMessages == {MsgCancel, MsgHello}

\* what a user may send in the chat specification while no dialogue is open
ChatIdleMessages ==
  {MsgHello, MsgHelloCaps, MsgHowAreYou, MsgThanks, MsgBare}

Messages ==
  DialogueMessages \cup IdleMessages \cup IntentDialogueMessages
    \cup IntentIdleMessages \cup ChatDialogueMessages \cup ChatIdleMessages

cancelKeywords ==
  <<<<"c", "a", "n", "c", "e", "l">>, <<"s", "t", "o", "p">>, <<"n", "o">>, <<"q", "u", "i", "t">>, <<"e", "x", "i", "t">>, <<"n", "e", "v", "e", "r", "m", "i", "n", "d">>, <<"n", "e", "v", "e", "r", " ", "m", "i", "n", "d">>>>

(***************************************************************************)
(* The extractors and the classifier tabulated over the messages of the    *)
(* model: each is computed once for each message from the definitions      *)
(* above, and the handlers look the result up.                             *)
(***************************************************************************)
factsOf(m) ==
  [lower     |-> toLowerCase(m),
   cancel    |-> \E k \in 1..Len(cancelKeywords) :
                   includes(toLowerCase(m), cancelKeywords[k]),
   isCancelKeyword |-> \E k \in 1..Len(cancelKeywords) :
                         cancelKeywords[k] = toLowerCase(m),
   yes       |-> includes(toLowerCase(m), <<"y", "e", "s">>),
   skip      |-> toLowerCase(m) = <<"s", "k", "i", "p">>,
   time      |-> extractTime(m),
   email     |-> validateEmail(m),
   int       |-> parseInt(m),
   meeting   |-> isMeetingRequest(m),
   cancelPhrase |-> isCancelPhrase(m),
   listPhrase   |-> isListPhrase(m),
   updatePhrase |-> isUpdatePhrase(m),
   greeting  |-> isGreeting(m),
   howAreYou |-> isHowAreYou(m)]

textFacts == [m \in Messages |-> factsOf(m)] @@ <<>>

\* parseDateInput for each message on each current date
parsedDates ==
  [p \in Messages \X TodayChoices |-> parseDateInput(p[1], p[2])] @@ <<>>

(***************************************************************************)
(* State                                                                   *)
(***************************************************************************)
VARIABLES
  userMeetingStates,  \* user -> None or Some(MeetingState)
  conversations,      \* user -> None or Some(Conversation)
  userTokens,         \* the users that hold a calendar token
  authServer,         \* None, or Some(user) while the OAuth callback server
                      \* started for that user listens on port 3000
  createCalls,        \* user -> the number of createMeeting calls made
  currentDay,              \* the current date
  now,                \* the current time, in minutes
  lastChat,           \* user -> None or Some(the minute handleChat last ran
                      \* for the user)
  inflight,           \* the handlers of handleMessage that wait at an await,
                      \* the MeetingState objects they hold and the object
                      \* each entry of userMeetingStates refers to
  event               \* the last thing that happened: the message handled,
                      \* its route and the reply sent

vars ==
  <<userMeetingStates, conversations, userTokens, authServer, createCalls,
    currentDay, now, lastChat, inflight, event>>

\* the two handlers that may be in flight at once
Handlers == {1, 2}

\* a handler that is not running
idleHandler == [pc |-> "idle", user |-> 0, message |-> <<>>, obj |-> 0]

\* no handler waits at an await and no MeetingState object has been created
NothingInFlight ==
  [handlers |-> [h \in Handlers |-> idleHandler],
   objects  |-> <<>>,
   entry    |-> [u \in Users |-> 0],
   base     |-> [u \in Users |-> None],
   arrivals |-> 0]

\* JavaScript truthiness of an optional number and of an optional string
TruthyNum(o) == o # None /\ Val(o) # 0

TruthyStr(o) == o # None /\ Val(o) # <<>>

\* cancelKeywords.some(keyword => userMessage.toLowerCase().includes(keyword))
hasCancelKeyword(userMessage) == textFacts[userMessage].cancel

\* isUserAuthorized
isUserAuthorized(userId) == userId \in userTokens

\* initialStep with the time asked for before the date
initialStepTimeFirst(details) ==
  IF ~TruthyStr(details.time) THEN "time"
  ELSE IF details.date = None THEN "date"
  ELSE IF Len(details.attendees) = 0 THEN "email"
  ELSE IF ~TruthyNum(details.duration) THEN "duration"
  ELSE "confirm"

\* the step a new dialogue opens at: the first missing slot
initialStep(details) ==
  IF details.date = None THEN "date"
  ELSE IF ~TruthyStr(details.time) THEN "time"
  ELSE IF Len(details.attendees) = 0 THEN "email"
  ELSE IF ~TruthyNum(details.duration) THEN "duration"
  ELSE "confirm"

\* the slots extracted from the first message of a dialogue
initialDetails(userMessage, day) ==
  LET info == analyzeMeetingRequest(userMessage).extractedInfo
      parsedDate == IF TruthyStr(info.date) THEN parseDateInput(Val(info.date), day)
                    ELSE None
  IN [date        |-> IF includes(toLowerCase(userMessage), <<"t", "o", "d", "a", "y">>) THEN Some(day)
                      ELSE parsedDate,
      time        |-> IF TruthyStr(info.time) THEN info.time ELSE None,
      duration    |-> IF TruthyNum(info.duration) THEN info.duration ELSE None,
      attendees   |-> info.emails,
      description |-> info.description]

\* the MeetingState stored for the first message of a dialogue
newMeetingState(userMessage, day) ==
  [step    |-> initialStep(initialDetails(userMessage, day)),
   details |-> initialDetails(userMessage, day)]

\* a step after an accepted date that asks for the date once more
stepAfterDateStay(details) == "date"

\* the step after an accepted date
stepAfterDate(details) == IF TruthyStr(details.time) THEN "email" ELSE "time"

\* a step after an accepted time that asks for the date again
stepAfterTimeToDate(details) == "date"

\* the step after an accepted time
stepAfterTime(details) == IF Len(details.attendees) # 0 THEN "duration" ELSE "email"

\* stepAfterEmail without the look at the duration
stepAfterEmailUnchecked(details) == "description"

\* the step after an accepted email address
stepAfterEmail(details) == IF TruthyNum(details.duration) THEN "description" ELSE "duration"

\* durationRejected without the upper limit
durationRejectedNoLimit(duration) == duration = NaN \/ Val(duration) <= 0

\* durationRejected with the upper limit off by one
durationRejectedAtLimit(duration) ==
  duration = NaN \/ Val(duration) <= 0 \/ Val(duration) >= 480

\* collect_duration rejects NaN, a value <= 0 and a value > 480
durationRejected(duration) ==
  duration = NaN \/ Val(duration) <= 0 \/ Val(duration) > 480

\* an attendee list that keeps the addresses it had
attendeesAppended(details, email) == Append(details.attendees, email)

\* state.details.attendees = [email]
attendeesAfterEmail(details, email) == <<email>>

CollectSteps == {"date", "time", "email", "duration", "description"}

\* one of the five collecting steps applied to a message:
\* [ok, state, reply]; not ok is the early return with a re-prompt
collectStep(state, userMessage, day) ==
  LET d == state.details
  IN CASE state.step = "date" ->
            LET parsedDate == parsedDates[<<userMessage, day>>]
            IN IF parsedDate = None
               THEN [ok |-> FALSE, state |-> state, reply |-> "reprompt_date"]
               ELSE [ok    |-> TRUE,
                     state |-> [step    |-> stepAfterDate(d),
                                details |-> [d EXCEPT !.date = parsedDate]],
                     reply |-> IF stepAfterDate(d) = "email"
                               THEN "ask_email" ELSE "ask_time"]
       [] state.step = "time" ->
            LET timeDetails == textFacts[userMessage].time
            IN IF ~TruthyStr(timeDetails)
               THEN [ok |-> FALSE, state |-> state, reply |-> "reprompt_time"]
               ELSE [ok    |-> TRUE,
                     state |-> [step    |-> stepAfterTime(d),
                                details |-> [d EXCEPT !.time = timeDetails]],
                     reply |-> IF stepAfterTime(d) = "duration"
                               THEN "ask_duration" ELSE "ask_email"]
       [] state.step = "email" ->
            LET email == textFacts[userMessage].email
            IN IF ~TruthyStr(email)
               THEN [ok |-> FALSE, state |-> state, reply |-> "reprompt_email"]
               ELSE [ok    |-> TRUE,
                     state |-> [step    |-> stepAfterEmail(d),
                                details |-> [d EXCEPT !.attendees = attendeesAfterEmail(d, Val(email))]],
                     reply |-> IF stepAfterEmail(d) = "description"
                               THEN "ask_description" ELSE "ask_duration"]
       [] state.step = "duration" ->
            LET duration == textFacts[userMessage].int
            IN IF durationRejected(duration)
               THEN [ok |-> FALSE, state |-> state, reply |-> "reprompt_duration"]
               ELSE [ok    |-> TRUE,
                     state |-> [step    |-> "description",
                                details |-> [d EXCEPT !.duration = duration]],
                     reply |-> "ask_description"]
       [] state.step = "description" ->
            [ok    |-> TRUE,
             state |-> [step    |-> "confirm",
                        details |-> IF ~textFacts[userMessage].skip
                                    THEN [d EXCEPT !.description = Some(userMessage)]
                                    ELSE d],
             reply |-> "confirm_summary"]

\* newMeetingState for each message on each current date
openingState ==
  [p \in Messages \X TodayChoices |-> newMeetingState(p[1], p[2])] @@ <<>>
(***************************************************************************)
(* Casual chat                                                             *)
(***************************************************************************)
\* the user turns of a conversation, in lower case
lastUserMessages(conversation) ==
  LET users == SelectSeq(conversation.messages, LAMBDA t : t.role = "user")
  IN [i \in 1..Len(users) |-> textFacts[users[i].content].lower]

\* repetitionCount that compares the turns as they were typed
repetitionCountCaseSensitive(conversation, userMessage) ==
  Cardinality({i \in 1..Len(conversation.messages) :
                 /\ conversation.messages[i].role = "user"
                 /\ conversation.messages[i].content = userMessage})

\* how many user turns of the conversation equal the message
repetitionCount(conversation, userMessage) ==
  Cardinality({i \in 1..Len(lastUserMessages(conversation)) :
                 lastUserMessages(conversation)[i] = textFacts[userMessage].lower})

\* getRepetitiveGreetingResponse; the replies are named, not spelled out
getRepetitiveGreetingResponse(count) ==
  IF count = 2 THEN "hey_again"
  ELSE IF count = 3 THEN "hi_once_more"
  ELSE "saying_hi_a_lot"

\* getRepetitiveHowAreYouResponse: a fixed reply above four repetitions, one
\* of five replies otherwise
getRepetitiveHowAreYouResponse(count) ==
  IF count > 4 THEN "asked_several_times" ELSE "repetitive_how_are_you"

\* the conversation handleChat works on: the stored one, or a new one that
\* holds the system prompt
conversationOf(userId) ==
  IF conversations[userId] # None THEN Val(conversations[userId])
  ELSE [messages   |-> <<[role |-> "system", content |-> "REMO_PERSONALITY"]>>,
        lastUpdate |-> now]

\* the conversation with one more turn
push(conversation, role, content) ==
  [conversation EXCEPT !.messages = Append(@, [role |-> role, content |-> content])]

\* handleChat: completionOk tells whether the chat completion call returns.
\* The result is [conversations, response].
handleChat(userId, userMessage, completionOk) ==
  LET withUser == push(conversationOf(userId), "user", userMessage)
      count    == repetitionCount(withUser, userMessage)
      greeting == IF count > 1 THEN getRepetitiveGreetingResponse(count)
                  ELSE "random_greeting"
      howAreYou == IF count > 1 THEN getRepetitiveHowAreYouResponse(count)
                   ELSE "random_how_are_you"
      store(c) == [conversations EXCEPT ![userId] = Some(c)]
  IN IF textFacts[userMessage].meeting
     THEN [conversations |-> conversations, response |-> "will_help_schedule"]
     ELSE IF textFacts[userMessage].greeting
     THEN [conversations |-> store(push(withUser, "assistant", greeting)),
           response      |-> greeting]
     ELSE IF textFacts[userMessage].howAreYou
     THEN [conversations |-> store(push(withUser, "assistant", howAreYou)),
           response      |-> howAreYou]
     ELSE IF completionOk
     THEN [conversations |-> store([push(withUser, "assistant", "completion")
                                      EXCEPT !.lastUpdate = now]),
           response      |-> "completion"]
     \* the call threw: nothing is stored, but the user turn was pushed onto
     \* the message list of a conversation that was already stored
     ELSE [conversations |-> IF conversations[userId] # None
                             THEN store(withUser) ELSE conversations,
           response      |-> "having_a_moment"]

\* the user turns the conversation of a user holds
userTurns(userId) ==
  IF conversations[userId] = None THEN 0
  ELSE Len(lastUserMessages(Val(conversations[userId])))

(***************************************************************************)
(* Authorization                                                           *)
(***************************************************************************)
\* startAuthProcess resolves when its server can listen on port 3000 and
\* rejects when the port is taken by a server started earlier
startAuthProcessResolves == authServer = None

(***************************************************************************)
(* The meeting dialogue                                                    *)
(***************************************************************************)
\* what the handling of a message leaves in the record of the last event:
\* the message, the route handleMessage took, the reply sent, and the
\* dialogue the user had when the message arrived
Handled(userId, userMessage, route, reply) ==
  event' = [kind |-> "message", user |-> userId, message |-> userMessage,
            route |-> route, reply |-> reply,
            before |-> userMeetingStates[userId]]

\* a delete that leaves the entry in the map
deletedNothing(userId) == userMeetingStates

\* a delete that clears the map
deletedEveryone(userId) == [u \in Users |-> None]

\* userMeetingStates.delete(userId)
deleted(userId) == [userMeetingStates EXCEPT ![userId] = None]

\* userMeetingStates.set(userId, state)
stored(userId, state) == [userMeetingStates EXCEPT ![userId] = Some(state)]

\* the map after the confirm step has run to the end of the function: the
\* entry is deleted in the branch, then the statement after the switch
\* stores the state again
afterConfirmBranch(userId, state) == stored(userId, state)

\* a catch block that apologises and leaves the entry in the map
afterEngineFailureKept(userId) == userMeetingStates

\* the map after the catch block of handleMeetingRequest: the entry of the
\* user is deleted
afterEngineFailure(userId) == deleted(userId)

\* the cancel keyword check that opens handleMeetingRequest
CancelDialogue(userId, userMessage) ==
  /\ userMeetingStates[userId] # None
  /\ hasCancelKeyword(userMessage)
  /\ userMeetingStates' = deleted(userId)
  /\ Handled(userId, userMessage, "meeting", "cancelled")
  /\ UNCHANGED <<conversations, userTokens, authServer, createCalls, currentDay, now, lastChat, inflight>>

\* the first message of a dialogue
OpenDialogue(userId, userMessage) ==
  /\ userMeetingStates[userId] = None
  /\ userMeetingStates' = stored(userId, openingState[<<userMessage, currentDay>>])
  /\ Handled(userId, userMessage, "meeting",
             IF openingState[<<userMessage, currentDay>>].step = "confirm"
             THEN "confirm_summary" ELSE "understood")
  /\ UNCHANGED <<conversations, userTokens, authServer, createCalls, currentDay, now, lastChat, inflight>>

\* an answer at one of the five collecting steps
CollectAnswer(userId, userMessage) ==
  /\ userMeetingStates[userId] # None
  /\ ~hasCancelKeyword(userMessage)
  /\ Val(userMeetingStates[userId]).step \in CollectSteps
  /\ LET r == collectStep(Val(userMeetingStates[userId]), userMessage, currentDay)
     IN /\ userMeetingStates' = IF r.ok THEN stored(userId, r.state)
                                ELSE userMeetingStates
        /\ Handled(userId, userMessage, "meeting", r.reply)
  /\ UNCHANGED <<conversations, userTokens, authServer, createCalls, currentDay, now, lastChat, inflight>>

\* 'yes' at confirm without a calendar token: the auth flow is started; when
\* startAuthProcess rejects, the catch block apologises and deletes the entry
ConfirmUnauthorized(userId, userMessage) ==
  /\ userMeetingStates[userId] # None
  /\ ~hasCancelKeyword(userMessage)
  /\ Val(userMeetingStates[userId]).step = "confirm"
  /\ textFacts[userMessage].yes
  /\ ~isUserAuthorized(userId)
  /\ IF startAuthProcessResolves
     THEN /\ authServer' = Some(userId)
          /\ UNCHANGED userMeetingStates
          /\ Handled(userId, userMessage, "meeting", "auth_link")
     ELSE /\ UNCHANGED authServer
          /\ userMeetingStates' = afterEngineFailure(userId)
          /\ Handled(userId, userMessage, "meeting", "error_start_over")
  /\ UNCHANGED <<conversations, userTokens, createCalls, currentDay, now, lastChat, inflight>>

\* 'yes' at confirm with a calendar token: createMeeting is called and
\* returns true or false
ConfirmExecute(userId, userMessage) ==
  /\ userMeetingStates[userId] # None
  /\ ~hasCancelKeyword(userMessage)
  /\ Val(userMeetingStates[userId]).step = "confirm"
  /\ textFacts[userMessage].yes
  /\ isUserAuthorized(userId)
  /\ createCalls[userId] < MaxCreateCalls
  /\ createCalls' = [createCalls EXCEPT ![userId] = @ + 1]
  /\ \E success \in BOOLEAN :
       Handled(userId, userMessage, "meeting",
               IF success THEN "scheduled" ELSE "could_not_schedule")
  /\ userMeetingStates' = afterConfirmBranch(userId, Val(userMeetingStates[userId]))
  /\ UNCHANGED <<conversations, userTokens, authServer, currentDay, now, lastChat, inflight>>

\* any other reply at confirm
ConfirmOther(userId, userMessage) ==
  /\ userMeetingStates[userId] # None
  /\ ~hasCancelKeyword(userMessage)
  /\ Val(userMeetingStates[userId]).step = "confirm"
  /\ ~textFacts[userMessage].yes
  /\ userMeetingStates' = afterConfirmBranch(userId, Val(userMeetingStates[userId]))
  /\ Handled(userId, userMessage, "meeting",
             IF textFacts[userMessage].isCancelKeyword THEN "nothing" ELSE "starting_over")
  /\ UNCHANGED <<conversations, userTokens, authServer, createCalls, currentDay, now, lastChat, inflight>>

\* handleMeetingRequest
handleMeetingRequest(userId, userMessage) ==
  \/ CancelDialogue(userId, userMessage)
  \/ OpenDialogue(userId, userMessage)
  \/ CollectAnswer(userId, userMessage)
  \/ ConfirmUnauthorized(userId, userMessage)
  \/ ConfirmExecute(userId, userMessage)
  \/ ConfirmOther(userId, userMessage)

(***************************************************************************)
(* The other routes of handleMessage                                       *)
(***************************************************************************)
\* handleListMeetingsRequest: it changes nothing but the auth server
handleListMeetingsRequest(userId, userMessage) ==
  /\ IF ~isUserAuthorized(userId) /\ startAuthProcessResolves
     THEN /\ authServer' = Some(userId)
          /\ Handled(userId, userMessage, "list", "auth_link")
     ELSE /\ UNCHANGED authServer
          /\ \E reply \in IF isUserAuthorized(userId)
                          THEN {"meetings", "no_meetings", "error_fetching"}
                          ELSE {"error_fetching"} :
               Handled(userId, userMessage, "list", reply)
  /\ UNCHANGED <<userMeetingStates, conversations, userTokens, createCalls, currentDay, now, lastChat, inflight>>

\* the chat route: handleChat, then the reply
chatRoute(userId, userMessage) ==
  /\ \E completionOk \in BOOLEAN :
       /\ conversations' = handleChat(userId, userMessage, completionOk).conversations
       /\ Handled(userId, userMessage, "chat",
                  handleChat(userId, userMessage, completionOk).response)
  /\ lastChat' = [lastChat EXCEPT ![userId] = Some(now)]
  /\ UNCHANGED <<userMeetingStates, userTokens, authServer, createCalls, currentDay, now, inflight>>

\* routeOf with the list phrase tested before the meeting keywords
routeOfListFirst(userId, userMessage) ==
  IF textFacts[userMessage].listPhrase THEN "list"
  ELSE IF textFacts[userMessage].meeting \/ userMeetingStates[userId] # None THEN "meeting"
  ELSE IF textFacts[userMessage].cancelPhrase THEN "cancel"
  ELSE IF textFacts[userMessage].updatePhrase THEN "update"
  ELSE "chat"

\* the route handleMessage takes for a message
routeOf(userId, userMessage) ==
  IF textFacts[userMessage].meeting \/ userMeetingStates[userId] # None THEN "meeting"
  ELSE IF textFacts[userMessage].cancelPhrase THEN "cancel"
  ELSE IF textFacts[userMessage].listPhrase THEN "list"
  ELSE IF textFacts[userMessage].updatePhrase THEN "update"
  ELSE "chat"

\* handleMessage for a text message, the text already trimmed
handleMessage(userId, userMessage) ==
  \/ /\ routeOf(userId, userMessage) = "meeting"
     /\ handleMeetingRequest(userId, userMessage)
  \/ /\ routeOf(userId, userMessage) = "list"
     /\ handleListMeetingsRequest(userId, userMessage)
  \/ /\ routeOf(userId, userMessage) = "chat"
     /\ chatRoute(userId, userMessage)

\* the OAuth callback of the listening server, with a code that getToken
\* accepts: the token is stored for the user the server was started for and
\* the server is closed
OAuthCallback ==
  /\ authServer # None
  /\ userTokens' = userTokens \cup {Val(authServer)}
  /\ authServer' = None
  /\ event' = [kind |-> "oauth", user |-> Val(authServer)]
  /\ UNCHANGED <<userMeetingStates, conversations, createCalls, currentDay, now, lastChat, inflight>>

(***************************************************************************)
(* Specification                                                           *)
(***************************************************************************)
Init ==
  /\ userMeetingStates = [u \in Users |-> None]
  /\ conversations = [u \in Users |-> None]
  /\ userTokens \in SUBSET Senders
  /\ authServer = None
  /\ createCalls = [u \in Users |-> 0]
  /\ currentDay \in TodayChoices
  /\ now = 0
  /\ lastChat = [u \in Users |-> None]
  /\ inflight = NothingInFlight
  /\ event = [kind |-> "start"]

\* one of senders sends a message: one of dialogueMessages while a dialogue
\* is open, one of idleMessages while none is; a conversation holds at most
\* maxTurns user turns
ReceiveFromUsers(senders, dialogueMessages, idleMessages, maxTurns) ==
  \E u \in senders :
    \E m \in IF userMeetingStates[u] # None THEN dialogueMessages ELSE idleMessages :
      /\ routeOf(u, trim(m)) = "chat" => userTurns(u) < maxTurns
      /\ handleMessage(u, trim(m))

ReceiveFrom(dialogueMessages, idleMessages, maxTurns) ==
  ReceiveFromUsers(Senders, dialogueMessages, idleMessages, maxTurns)

\* a user sends a message: an answer while a dialogue is open, a request or
\* small talk while none is
Receive == ReceiveFrom(DialogueMessages, IdleMessages, MaxTurns)

Next == Receive \/ OAuthCallback

Spec == Init /\ [][Next]_vars

(***************************************************************************)
(* The intent specification: requests to cancel, update and list, and the  *)
(* answers at the duration step                                            *)
(***************************************************************************)
IntentReceive == ReceiveFrom(IntentDialogueMessages, IntentIdleMessages, MaxTurns)

IntentNext == IntentReceive \/ OAuthCallback

IntentSpec == Init /\ [][IntentNext]_vars

(***************************************************************************)
(* The two eviction timers and the chat specification                      *)
(***************************************************************************)
\* the users whose conversation was last updated more than limit minutes
\* before time
staleAt(time, limit) ==
  {u \in Users : conversations[u] # None
                  /\ time - Val(conversations[u]).lastUpdate > limit}

\* a sweep that deletes the dialogue of a user along with the conversation
sweepBothMaps(time, limit) ==
  [conversations     |-> [u \in Users |-> IF u \in staleAt(time, limit) THEN None
                                          ELSE conversations[u]],
   userMeetingStates |-> [u \in Users |-> IF u \in staleAt(time, limit) THEN None
                                          ELSE userMeetingStates[u]]]

\* the body of both timer callbacks: every stale conversation is deleted
\* from the conversations map; the dialogue map is not touched
sweep(time, limit) ==
  [conversations     |-> [u \in Users |-> IF u \in staleAt(time, limit) THEN None
                                          ELSE conversations[u]],
   userMeetingStates |-> userMeetingStates]

\* a minute passes and the one-minute timer fires: conversations not updated
\* for more than five minutes are deleted
MinuteSweep ==
  /\ now < MaxNow
  /\ now' = now + 1
  /\ conversations' = sweep(now + 1, 5).conversations
  /\ userMeetingStates' = sweep(now + 1, 5).userMeetingStates
  /\ event' = [kind |-> "sweep", timer |-> "minute", removed |-> staleAt(now + 1, 5)]
  /\ UNCHANGED <<userTokens, authServer, createCalls, currentDay, lastChat, inflight>>

\* the hourly timer fires (its phase against the minutes of the model is
\* open): conversations not updated for more than an hour are deleted
HourlySweep ==
  /\ conversations' = sweep(now, 60).conversations
  /\ userMeetingStates' = sweep(now, 60).userMeetingStates
  /\ event' = [kind |-> "sweep", timer |-> "hourly", removed |-> staleAt(now, 60)]
  /\ UNCHANGED <<userTokens, authServer, createCalls, currentDay, now, lastChat, inflight>>

\* a user sends small talk, or opens and answers a dialogue, while time
\* passes
ChatReceive == ReceiveFrom(ChatDialogueMessages, ChatIdleMessages, MaxChatTurns)

\* the chat specification starts on one date and without tokens
ChatInit == Init /\ currentDay = MakeDate(2026, 10, 3) /\ userTokens = {}

ChatNext == ChatReceive \/ MinuteSweep \/ HourlySweep

ChatSpec == ChatInit /\ [][ChatNext]_vars

(***************************************************************************)
(* extractTime on messages built around the named time expressions         *)
(***************************************************************************)
\* the text put before and after a named expression
TimeContexts ==
  {<<<<>>, <<>>>>, <<<<"l", "e", "t", "'", "s", " ", "m", "e", "e", "t", " ", "a", "t", " ">>, <<" ", "o", "k", "?">>>>, <<<<>>, <<" ", "w", "o", "r", "k", "s">>>>,
   <<<<"a", "r", "o", "u", "n", "d", " ">>, <<>>>>}

\* the inputs: the message and the entry of TIME_EXPRESSIONS it is built
\* around
TimeInputs ==
  {[kind |-> "input", expr |-> k,
    message |-> c[1] \o TIME_EXPRESSIONS[k][1] \o c[2]] :
     k \in 1..Len(TIME_EXPRESSIONS), c \in TimeContexts}

TimeInit ==
  /\ userMeetingStates = [u \in Users |-> None]
  /\ conversations = [u \in Users |-> None]
  /\ userTokens = {}
  /\ authServer = None
  /\ createCalls = [u \in Users |-> 0]
  /\ currentDay = MakeDate(2026, 10, 3)
  /\ now = 0
  /\ lastChat = [u \in Users |-> None]
  /\ inflight = NothingInFlight
  /\ event \in TimeInputs

\* extractTime is applied to the input
ExtractTime ==
  /\ event.kind = "input"
  /\ event' = [kind |-> "extractTime", expr |-> event.expr,
               message |-> event.message, time |-> extractTime(event.message)]
  /\ UNCHANGED <<userMeetingStates, conversations, userTokens, authServer,
                 createCalls, currentDay, now, lastChat, inflight>>

TimeSpec == TimeInit /\ [][ExtractTime]_vars
(***************************************************************************)
(* Properties of the meeting dialogue                                      *)
(***************************************************************************)
\* the last event is a handled message
IsMessage == event.kind = "message"

\* the last event is a message that arrived while its user had a dialogue
InDialogue == IsMessage /\ event.before # None

\* the step that dialogue was at
StepBefore == Val(event.before).step

\* the dialogue the user of the last event has now
After == userMeetingStates[event.user]

\* the last event opened a dialogue
Opened == IsMessage /\ event.before = None /\ event.route = "meeting"

\* the message contains one of the cancel keywords
containsKeyword(m) ==
  \E k \in 1..Len(cancelKeywords) : includes(toLowerCase(m), cancelKeywords[k])

\* C1: after 'yes' at confirm by an authorized user, once createMeeting has
\* returned with success or with failure, the user has no dialogue any more:
\* a later message that is not meeting-flagged is not routed to the dialogue
\* engine
C1_NoDialogueAfterExecution ==
  (IsMessage /\ event.reply \in {"scheduled", "could_not_schedule"}) =>
    /\ After = None
    /\ \A m \in Messages :
         ~textFacts[m].meeting => routeOf(event.user, m) # "meeting"

\* C2: at confirm, a reply that contains neither 'yes' nor a cancel keyword
\* sends the 'starting over' message and leaves the user without a dialogue
C2_StartingOverClears ==
  (/\ InDialogue
   /\ StepBefore = "confirm"
   /\ ~includes(toLowerCase(event.message), <<"y", "e", "s">>)
   /\ ~containsKeyword(event.message)) =>
    /\ event.reply = "starting_over"
    /\ After = None

\* C3: at every step of an open dialogue, a message that contains a cancel
\* keyword removes the dialogue with the cancellation reply, whatever the
\* step; and a dialogue opened while none is stored holds only what its own
\* first message gives (nothing of an earlier dialogue)
C3_CancelKeywordClears ==
  /\ (InDialogue /\ containsKeyword(event.message)) =>
       (event.reply = "cancelled" /\ After = None)
  /\ Opened => After = Some(openingState[<<event.message, currentDay>>])

\* a dialogue at step duration, with slots filled, was cancelled by
\* "Never mind"
C3_Witness ==
  /\ InDialogue
  /\ event.message = MsgNeverMind
  /\ StepBefore = "duration"
  /\ Len(Val(event.before).details.attendees) = 1
  /\ event.reply = "cancelled"
  /\ After = None

\* C4: a dialogue at step confirm has date, time, at least one attendee and
\* duration
C4_ConfirmIsComplete ==
  \A u \in Users :
    (userMeetingStates[u] # None /\ Val(userMeetingStates[u]).step = "confirm") =>
      LET d == Val(userMeetingStates[u]).details
      IN /\ d.date # None
         /\ d.time # None
         /\ Len(d.attendees) >= 1
         /\ d.duration # None

\* a dialogue opened with nothing filled reached confirm through the answers
C4_Witness ==
  /\ InDialogue
  /\ StepBefore = "description"
  /\ Val(event.before).details.attendees = <<MsgEmail>>
  /\ Val(event.before).details.duration = Some(30)
  /\ After # None
  /\ Val(After).step = "confirm"

\* C5: a new dialogue opens at the first unfilled slot in the order date,
\* time, email, duration; at confirm exactly when the four are filled; never
\* at description
C5_OpeningStepIsFirstUnfilled ==
  Opened =>
    LET d == Val(After).details
        step == Val(After).step
        hasDate == d.date # None
        hasTime == d.time # None
        hasAttendee == Len(d.attendees) >= 1
        hasDuration == d.duration # None
    IN /\ (step = "date") <=> ~hasDate
       /\ (step = "time") <=> (hasDate /\ ~hasTime)
       /\ (step = "email") <=> (hasDate /\ hasTime /\ ~hasAttendee)
       /\ (step = "duration") <=> (hasDate /\ hasTime /\ hasAttendee /\ ~hasDuration)
       /\ (step = "confirm") <=> (hasDate /\ hasTime /\ hasAttendee /\ hasDuration)
       /\ step # "description"

\* a dialogue opened at duration: date, time and attendee came with the
\* first message
C5_Witness ==
  /\ Opened
  /\ event.message = MsgNoDuration
  /\ Val(After).step = "duration"
  /\ Val(After).details.time # None
  /\ Val(After).details.duration = None

\* C6: the fully specified message opens the dialogue at confirm with the
\* date of tomorrow, the time 15:00, 30 minutes and the one attendee; and a
\* first message the date resolver resolves pre-fills the date
C6_FullMessageOpensAtConfirm ==
  /\ (Opened /\ event.message = MsgFull) =>
       /\ Val(After).step = "confirm"
       /\ Val(After).details.date = Some(currentDay + 1)
       /\ Val(After).details.time = Some(<<"1", "5", ":", "0", "0">>)
       /\ Val(After).details.duration = Some(30)
       /\ Val(After).details.attendees = <<MsgEmail>>
  /\ (Opened /\ parsedDates[<<event.message, currentDay>>] # None) =>
       Val(After).details.date # None

\* the first of the four slots that is not filled
firstUnfilled(details) ==
  IF details.date = None THEN "date"
  ELSE IF details.time = None THEN "time"
  ELSE IF Len(details.attendees) = 0 THEN "email"
  ELSE IF details.duration = None THEN "duration"
  ELSE "none"

\* C7: after an accepted answer the dialogue is at the first slot still
\* unfilled in the order date, time, email, duration (past them when the
\* four are filled): a slot filled from the first message is not asked again
C7_LookaheadSkip ==
  (/\ InDialogue
   /\ StepBefore \in {"date", "time", "email", "duration"}
   /\ After # None
   /\ Val(After).step # StepBefore) =>
    IF firstUnfilled(Val(After).details) = "none"
    THEN Val(After).step \in {"description", "confirm"}
    ELSE Val(After).step = firstUnfilled(Val(After).details)

\* the answer is valid for the slot of the step
validAnswer(step, m, day) ==
  CASE step = "date" -> parsedDates[<<m, day>>] # None
    [] step = "time" -> TruthyStr(textFacts[m].time)
    [] step = "email" -> textFacts[m].email # None
    [] step = "duration" -> /\ textFacts[m].int # NaN
                            /\ Val(textFacts[m].int) \in 1..480
    [] step = "description" -> TRUE

\* the slot of the step is filled (the description may stay unset)
slotFilled(step, details) ==
  CASE step = "date" -> details.date # None
    [] step = "time" -> details.time # None
    [] step = "email" -> Len(details.attendees) = 1
    [] step = "duration" -> details.duration # None
    [] step = "description" -> TRUE

\* the message holds a cancel keyword as a word of its own
asksToCancel(m) ==
  \E k \in 1..Len(cancelKeywords) : HasWord(toLowerCase(m), cancelKeywords[k])

\* C8: at a collecting step, an answer valid for the slot of that step (one
\* that does not ask to cancel) fills the slot and advances the step; it
\* never clears the dialogue
C8_ValidAnswerAdvances ==
  (/\ InDialogue
   /\ StepBefore \in CollectSteps
   /\ ~asksToCancel(event.message)
   /\ validAnswer(StepBefore, event.message, currentDay)) =>
    /\ After # None
    /\ Val(After).step # StepBefore
    /\ slotFilled(StepBefore, Val(After).details)

\* the re-prompt of a step
repromptOf(step) ==
  CASE step = "date" -> "reprompt_date"
    [] step = "time" -> "reprompt_time"
    [] step = "email" -> "reprompt_email"
    [] step = "duration" -> "reprompt_duration"

C10_UnauthorizedYesKeepsDialogue ==
  (/\ InDialogue
   /\ StepBefore = "confirm"
   /\ includes(toLowerCase(event.message), <<"y", "e", "s">>)
   /\ ~containsKeyword(event.message)
   /\ ~isUserAuthorized(event.user)) =>
    /\ event.reply = "auth_link"
    /\ After = event.before

(***************************************************************************)
(* Properties of the duration slot                                         *)
(***************************************************************************)
\* C11: in every reachable state the duration slot of a dialogue is unset or
\* a positive number of at most 480 minutes, whether it came from the first
\* message or from an answer at the duration step
C11_DurationInRange ==
  \A u \in Users :
    userMeetingStates[u] # None =>
      LET duration == Val(userMeetingStates[u]).details.duration
      IN duration = None \/ (Val(duration) >= 1 /\ Val(duration) <= 480)

\* the last event is an answer at the duration step
AtDuration == InDialogue /\ StepBefore = "duration"

\* the answer was turned down: the dialogue is as it was
TurnedDown == event.reply = "reprompt_duration" /\ After = event.before

\* the answer was taken: the duration is the number and the step is
\* description
Taken(minutes) ==
  /\ After # None
  /\ Val(After).step = "description"
  /\ Val(After).details.duration = Some(minutes)

\* C12 as stated: at the duration step 0, 481 and every non-numeric text are
\* turned down with step and duration as they were, and 1 and 480 are taken
C12_DurationBoundaryAnyText ==
  AtDuration =>
    /\ event.message \in {Msg0, Msg481} => TurnedDown
    /\ parseInt(event.message) = NaN => TurnedDown
    /\ event.message = Msg1 => Taken(1)
    /\ event.message = Msg480 => Taken(480)

\* C12 amended: at the duration step 0, 481 and every non-numeric text that
\* holds no cancel keyword are turned down with step and duration as they
\* were, and 1 and 480 are taken
C12_DurationBoundary ==
  AtDuration =>
    /\ event.message \in {Msg0, Msg481} => TurnedDown
    /\ (parseInt(event.message) = NaN /\ ~containsKeyword(event.message)) =>
         TurnedDown
    /\ event.message = Msg1 => Taken(1)
    /\ event.message = Msg480 => Taken(480)

\* 480 minutes was taken at the duration step
C12_Witness == AtDuration /\ event.message = Msg480 /\ Taken(480)

(***************************************************************************)
(* Properties of the routing                                               *)
(***************************************************************************)
\* C13: a message of a user with an open dialogue, or one that matches a
\* meeting keyword, is handled by the dialogue engine (also when it matches
\* the list phrase); the list and chat handlers get only messages for which
\* neither holds; and handling a message of a user with an open dialogue
\* leaves the conversation of that user as it was
C13_RoutingPrecedence ==
  [][event'.kind = "message" =>
       LET u == event'.user
           m == event'.message
       IN /\ (userMeetingStates[u] # None \/ isMeetingRequest(m)) =>
               event'.route = "meeting"
          /\ event'.route # "meeting" =>
               (userMeetingStates[u] = None /\ ~isMeetingRequest(m))
          /\ userMeetingStates[u] # None => conversations'[u] = conversations[u]]_vars

\* a message that matches a meeting keyword and the list phrase opened a
\* dialogue
C13_Witness ==
  /\ Opened
  /\ event.message = MsgCheckSchedule
  /\ isListPhrase(event.message)
  /\ isMeetingRequest(event.message)
  /\ After # None

\* the steps of the dialogue that creates a meeting
CreationSteps == CollectSteps \cup {"confirm"}

\* C14: with no dialogue open, a request to cancel a meeting (a cancel verb
\* and a meeting noun) is handled by the cancellation flow, which leaves the
\* user with no dialogue or at confirm_cancel or select_cancel, never at a
\* step of the creation dialogue
C14_CancelRequestUsesCancelFlow ==
  (IsMessage /\ event.before = None /\ isCancelPhrase(event.message)) =>
    /\ event.route = "cancel"
    /\ After = None \/ Val(After).step \in {"confirm_cancel", "select_cancel"}
    /\ After # None => Val(After).step \notin CreationSteps

\* C15: with no dialogue open, a message with an update or reschedule verb
\* is handled by the update flow and opens no creation dialogue
C15_UpdateRequestUsesUpdateFlow ==
  (IsMessage /\ event.before = None /\ isUpdatePhrase(event.message)) =>
    /\ event.route = "update"
    /\ After # None => Val(After).step \notin CreationSteps

(***************************************************************************)
(* Properties of the error handling                                        *)
(***************************************************************************)
\* the replies that apologise for a failure
Apologies ==
  {"error_start_over", "could_not_schedule", "error_fetching", "having_a_moment"}

C17_SweepKeepsDialogues ==
  [][event'.kind = "sweep" => userMeetingStates' = userMeetingStates]_vars

\* a sweep removed the conversation of a user whose dialogue is open
C17_Witness ==
  /\ event.kind = "sweep"
  /\ \E u \in event.removed :
       /\ conversations[u] = None
       /\ userMeetingStates[u] # None

\* C18: a sweep removes only conversations of users whose last chat message
\* was handled more than five minutes ago, and the one-minute sweep leaves
\* no conversation of a user idle for more than five minutes
C18_EvictedOnlyWhenIdle ==
  event.kind = "sweep" =>
    /\ \A u \in event.removed :
         lastChat[u] # None /\ now - Val(lastChat[u]) > 5
    /\ event.timer = "minute" =>
         \A u \in Users :
           conversations[u] # None =>
             (lastChat[u] # None /\ now - Val(lastChat[u]) <= 5)

\* the reply the n-th occurrence of a greeting text is to get
greetingReplyFor(n) ==
  IF n = 1 THEN "random_greeting"
  ELSE IF n = 2 THEN "hey_again"
  ELSE IF n = 3 THEN "hi_once_more"
  ELSE "saying_hi_a_lot"

\* how many user turns up to turn i of the list are the text of turn i,
\* letter case aside
occurrence(messages, i) ==
  Cardinality({j \in 1..i :
                 /\ messages[j].role = "user"
                 /\ toLowerCase(messages[j].content) = toLowerCase(messages[i].content)})

\* C19: in a stored conversation every greeting turn of the user is
\* answered, the first occurrence of its text by the generic greeting and
\* the n-th by the repetition reply for n (one reply for 2, one for 3, one
\* from 4 on), occurrences counted without regard to letter case
C19_GreetingRepetition ==
  \A u \in Users :
    conversations[u] # None =>
      LET messages == Val(conversations[u]).messages
      IN \A i \in 1..Len(messages) :
           (messages[i].role = "user" /\ isGreeting(messages[i].content)) =>
             /\ i < Len(messages)
             /\ messages[i + 1].role = "assistant"
             /\ messages[i + 1].content = greetingReplyFor(occurrence(messages, i))

\* the same greeting three times in a row, the third answered by the reply
\* for three
C19_Witness ==
  \E u \in Users :
    /\ conversations[u] # None
    /\ LET messages == Val(conversations[u]).messages
       IN /\ Len(messages) = 7
          /\ \A i \in {2, 4, 6} : messages[i] = [role |-> "user", content |-> MsgHello]
          /\ messages[7] = [role |-> "assistant", content |-> "hi_once_more"]

(***************************************************************************)
(* Properties of the time extraction                                       *)
(***************************************************************************)
\* C20: for a message built around one of the 17 named time expressions,
\* extractTime returns the value the table gives for that expression,
\* whatever text surrounds it
C20_NamedTimeExact ==
  event.kind = "extractTime" =>
    event.time = Some(TIME_EXPRESSIONS[event.expr][2])

(***************************************************************************)
(* extractTime on clock times: an hour, optional minutes, an optional      *)
(* meridian                                                                *)
(***************************************************************************)
\* the ways a meridian is written after the hour; "" is no meridian
MeridianForms ==
  {[text |-> <<>>, half |-> "none"],
   [text |-> <<"a", "m">>, half |-> "am"], [text |-> <<"p", "m">>, half |-> "pm"],
   [text |-> <<" ", "a", "m">>, half |-> "am"], [text |-> <<" ", "p", "m">>, half |-> "pm"],
   [text |-> <<"A", "M">>, half |-> "am"], [text |-> <<"P", "M">>, half |-> "pm"],
   [text |-> <<"a", ".", "m", ".">>, half |-> "am"], [text |-> <<" ", "p", ".", "m", ".">>, half |-> "pm"]}

\* the minutes written after the hour; -1 is no minutes
MinuteForms == {-1, 0, 5, 30}

\* the decimal text of n < 100, without and with a leading zero
Decimal(n) ==
  IF n < 10 THEN <<DigitChar[n]>> ELSE <<DigitChar[n \div 10], DigitChar[n % 10]>>
TwoDigits(n) == <<DigitChar[n \div 10], DigitChar[n % 10]>>

\* the text of a clock time
ClockText(h, mm, form) ==
  Decimal(h) \o (IF mm = -1 THEN <<>> ELSE <<":">> \o TwoDigits(mm)) \o form.text

\* the inputs: hours 1..12 with a meridian, hours 0..11 without
ClockInputs ==
  {[kind |-> "input",
    expr |-> [hour |-> h, minutes |-> mm, half |-> form.half],
    message |-> c[1] \o ClockText(h, mm, form) \o c[2]] :
     h \in 0..12, mm \in MinuteForms, c \in TimeContexts,
     form \in {f \in MeridianForms : f.half = "none"}}
  \cup
  {[kind |-> "input",
    expr |-> [hour |-> h, minutes |-> mm, half |-> form.half],
    message |-> c[1] \o ClockText(h, mm, form) \o c[2]] :
     h \in 1..12, mm \in MinuteForms, c \in TimeContexts,
     form \in {f \in MeridianForms : f.half # "none"}}

ClockInit ==
  /\ userMeetingStates = [u \in Users |-> None]
  /\ conversations = [u \in Users |-> None]
  /\ userTokens = {}
  /\ authServer = None
  /\ createCalls = [u \in Users |-> 0]
  /\ currentDay = MakeDate(2026, 10, 3)
  /\ now = 0
  /\ lastChat = [u \in Users |-> None]
  /\ inflight = NothingInFlight
  /\ event \in ClockInputs

ClockSpec == ClockInit /\ [][ExtractTime]_vars

\* the hour of the day that an hour of the 12-hour clock stands for
hourOfDay(h, half) ==
  CASE half = "pm" -> IF h = 12 THEN 12 ELSE h + 12
    [] half = "am" -> IF h = 12 THEN 0 ELSE h
    [] OTHER       -> h

\* C21: for a clock time h[:mm] with a meridian, h in 1..12, extractTime
\* gives h + 12 for pm (12 pm stays 12) and h for am (12 am gives 0); an hour
\* without a meridian and without an evening or night cue is unchanged; the
\* result is always zero-padded HH:MM
C21_MeridianNormalization ==
  event.kind = "extractTime" =>
    event.time = Some(TwoDigits(hourOfDay(event.expr.hour, event.expr.half))
                      \o <<":">>
                      \o TwoDigits(Max({event.expr.minutes, 0})))

\* "12am" in a sentence gave 00:00
C21_Witness ==
  /\ event.kind = "extractTime"
  /\ event.expr = [hour |-> 12, minutes |-> -1, half |-> "am"]
  /\ event.message = <<"l", "e", "t", "'", "s", " ", "m", "e", "e", "t", " ", "a", "t", " ", "1", "2", "a", "m", " ", "o", "k", "?">>
  /\ event.time = Some(<<"0", "0", ":", "0", "0">>)

(***************************************************************************)
(* parseDateInput on dates written in the forms it reads                   *)
(***************************************************************************)
\* the current dates tried: a day inside a month, the last day of a year,
\* the day after Christmas, the first day of a year, a leap day
DateTodays ==
  {MakeDate(2026, 10, 3), MakeDate(2026, 11, 31), MakeDate(2026, 11, 26),
   MakeDate(2026, 0, 1), MakeDate(2028, 1, 29)}

\* the days, months (1..12) and years written; None is no year
DateDays == {1, 3, 4, 29, 31}
DateMonths == {1, 2, 11, 12}
DateYears == {None, Some(2025), Some(2026), Some(2027), Some(2028)}

\* the year as the last part of a date, after the separator sep
YearText(year, sep) == IF year = None THEN <<>> ELSE sep \o toString(Val(year))

\* D-M and D-M-YYYY with either separator
NumericInputs ==
  {[kind |-> "dateInput",
    expr |-> [branch |-> "numeric", day |-> d, month |-> m - 1, year |-> y],
    message |-> Decimal(d) \o sep \o Decimal(m) \o YearText(y, sep)] :
     d \in DateDays, m \in DateMonths, y \in DateYears, sep \in {<<"-">>, <<"/">>}}

\* the suffix English gives a day number
OrdinalSuffix(d) ==
  IF d \in {1, 21, 31} THEN <<"s", "t">>
  ELSE IF d \in {2, 22} THEN <<"n", "d">>
  ELSE IF d \in {3, 23} THEN <<"r", "d">> ELSE <<"t", "h">>

\* a day number, bare or with its suffix, and a month name, whole or cut to
\* three letters
MonthNameInputs ==
  {[kind |-> "dateInput",
    expr |-> [branch |-> "month name", day |-> d, month |-> m - 1, year |-> y],
    message |-> Decimal(d) \o (IF suffixed THEN OrdinalSuffix(d) ELSE <<>>)
                \o <<" ">>
                \o (IF whole THEN monthNames[m] ELSE SubSeq(monthNames[m], 1, 3))
                \o YearText(y, <<" ">>)] :
     d \in DateDays, m \in DateMonths, y \in DateYears,
     suffixed \in BOOLEAN, whole \in BOOLEAN}

\* a spelled ordinal that holds no other ordinal, and a whole month name
OrdinalInputs ==
  {[kind |-> "dateInput",
    expr |-> [branch |-> "ordinal", day |-> d, month |-> m - 1, year |-> y],
    message |-> dayNumbers[d] \o <<" ">> \o monthNames[m] \o YearText(y, <<" ">>)] :
     d \in {1, 3, 4, 30}, m \in DateMonths, y \in DateYears}

\* YYYY-MM-DD, which only the generic parse reads
GenericInputs ==
  {[kind |-> "dateInput",
    expr |-> [branch |-> "generic", day |-> d, month |-> m - 1, year |-> y],
    message |-> toString(Val(y)) \o <<"-">> \o TwoDigits(m) \o <<"-">> \o TwoDigits(d)] :
     d \in {1, 3, 4, 26, 28}, m \in DateMonths, y \in DateYears \ {None}}

\* a named relative expression, alone and inside a sentence
RelativeInputs ==
  {[kind |-> "dateInput",
    expr |-> [branch |-> "relative", entry |-> k],
    message |-> c[1] \o DATE_EXPRESSIONS[k][1] \o c[2]] :
     k \in 1..Len(DATE_EXPRESSIONS),
     c \in {<<<<>>, <<>>>>, <<<<"h", "o", "w", " ", "a", "b", "o", "u", "t", " ">>, <<"?">>>>}}

DateInputs ==
  NumericInputs \cup MonthNameInputs \cup OrdinalInputs \cup GenericInputs
  \cup RelativeInputs

DateInit ==
  /\ userMeetingStates = [u \in Users |-> None]
  /\ conversations = [u \in Users |-> None]
  /\ userTokens = {}
  /\ authServer = None
  /\ createCalls = [u \in Users |-> 0]
  /\ currentDay \in DateTodays
  /\ now = 0
  /\ lastChat = [u \in Users |-> None]
  /\ inflight = NothingInFlight
  /\ event \in DateInputs

\* parseDateInput is applied to the input
ParseDate ==
  /\ event.kind = "dateInput"
  /\ event' = [kind |-> "parseDateInput", expr |-> event.expr,
               message |-> event.message,
               date |-> parseDateInput(event.message, currentDay)]
  /\ UNCHANGED <<userMeetingStates, conversations, userTokens, authServer,
                 createCalls, currentDay, now, lastChat, inflight>>

DateSpec == DateInit /\ [][ParseDate]_vars

\* the calendar date a written day, month and year stand for, the year being
\* the current one when none is written
writtenDate(expr, day) ==
  MakeDate(IF expr.year = None THEN getFullYear(day) ELSE Val(expr.year),
           expr.month, expr.day)

C23_RelativeNeverPast ==
  (event.kind = "parseDateInput" /\ event.expr.branch = "relative") =>
    /\ event.date # None
    /\ Val(event.date) >= currentDay

(***************************************************************************)
(* Weekday resolution                                                      *)
(***************************************************************************)
weekdays ==
  <<<<"s", "u", "n", "d", "a", "y">>, <<"m", "o", "n", "d", "a", "y">>, <<"t", "u", "e", "s", "d", "a", "y">>, <<"w", "e", "d", "n", "e", "s", "d", "a", "y">>, <<"t", "h", "u", "r", "s", "d", "a", "y">>, <<"f", "r", "i", "d", "a", "y">>,
    <<"s", "a", "t", "u", "r", "d", "a", "y">>>>

\* Array.prototype.indexOf on a list of texts, from 0; -1 when absent
indexOf(list, item) ==
  LET ks == {k \in 1..Len(list) : list[k] = item}
  IN IF ks = {} THEN -1 ELSE Min(ks) - 1

\* the last occurrence of the weekday targetDay in the month of today
lastInMonth(targetDay, today) ==
  With(MakeDate(getFullYear(today), getMonth(today) + 1, 0), LAMBDA lastDay :
    LET daysToAdd == targetDay - getDay(lastDay)
    IN lastDay + (IF daysToAdd > 0 THEN daysToAdd - 7 ELSE daysToAdd))

\* an offset that wraps only when the target weekday is before today's, so
\* that today's own weekday gives today
nearestOffsetSameDay(targetDay, today) ==
  IF targetDay - getDay(today) < 0 THEN targetDay - getDay(today) + 7
  ELSE targetDay - getDay(today)

\* the offset of the default, this and coming: the nearest occurrence after
\* today
nearestOffset(targetDay, today) ==
  IF targetDay - getDay(today) <= 0 THEN targetDay - getDay(today) + 7
  ELSE targetDay - getDay(today)

\* an offset for next that is a week after the nearest occurrence
nextOffsetAfterNearest(targetDay, today) == nearestOffset(targetDay, today) + 7

\* the offset of next
nextOffset(targetDay, today) == targetDay - getDay(today) + 7

\* getWeekdayDate(weekday, qualifier), today being the current date
getWeekdayDate(weekday, qualifier, today) ==
  With(indexOf(weekdays, toLowerCase(weekday)), LAMBDA targetDay :
    IF targetDay = -1 THEN None
    ELSE CASE toLowerCase(qualifier) = <<"n", "e", "x", "t">> ->
                Some(today + nextOffset(targetDay, today))
           [] toLowerCase(qualifier) = <<"t", "h", "i", "s">> ->
                Some(today + nearestOffset(targetDay, today))
           [] toLowerCase(qualifier) = <<"c", "o", "m", "i", "n", "g">> ->
                Some(today + nearestOffset(targetDay, today))
           [] toLowerCase(qualifier) = <<"l", "a", "s", "t">> ->
                Some(lastInMonth(targetDay, today))
           [] OTHER -> Some(today + nearestOffset(targetDay, today)))

\* the current dates tried: from 20 October 2026 to 10 January 2027, every
\* weekday at the start, in the middle and at the end of a month
WeekdayTodays == MakeDate(2026, 9, 20)..MakeDate(2027, 0, 10)

Qualifiers == {<<"n", "e", "x", "t">>, <<"t", "h", "i", "s">>, <<"c", "o", "m", "i", "n", "g">>, <<"l", "a", "s", "t">>, <<>>}

WeekdayInputs ==
  {[kind |-> "weekdayInput", weekday |-> weekdays[k], qualifier |-> q] :
     k \in 1..Len(weekdays), q \in Qualifiers}

\* names that are not in weekdays, with the qualifiers that ask for the
\* nearest occurrence
UnknownWeekdayInputs ==
  {[kind |-> "weekdayInput", weekday |-> w, qualifier |-> q] :
     w \in {<<"f", "u", "n", "d", "a", "y">>, <<"m", "o", "n">>}, q \in {<<"t", "h", "i", "s">>, <<"c", "o", "m", "i", "n", "g">>, <<>>}}

WeekdayInit ==
  /\ userMeetingStates = [u \in Users |-> None]
  /\ conversations = [u \in Users |-> None]
  /\ userTokens = {}
  /\ authServer = None
  /\ createCalls = [u \in Users |-> 0]
  /\ currentDay \in WeekdayTodays
  /\ now = 0
  /\ lastChat = [u \in Users |-> None]
  /\ inflight = NothingInFlight
  /\ event \in WeekdayInputs \cup UnknownWeekdayInputs

\* getWeekdayDate is applied to the input
ResolveWeekday ==
  /\ event.kind = "weekdayInput"
  /\ event' = [kind |-> "getWeekdayDate", weekday |-> event.weekday,
               qualifier |-> event.qualifier,
               date |-> getWeekdayDate(event.weekday, event.qualifier, currentDay)]
  /\ UNCHANGED <<userMeetingStates, conversations, userTokens, authServer,
                 createCalls, currentDay, now, lastChat, inflight>>

WeekdaySpec == WeekdayInit /\ [][ResolveWeekday]_vars

\* the number of a weekday name, Sunday being 0
weekdayNumber(name) == CHOOSE k \in 0..6 : weekdays[k + 1] = name

C25_LastIsBeforeToday ==
  (event.kind = "getWeekdayDate" /\ event.qualifier = <<"l", "a", "s", "t">>) =>
    /\ event.date # None
    /\ getDay(Val(event.date)) = weekdayNumber(event.weekday)
    /\ Val(event.date) < currentDay
    /\ getMonth(Val(event.date)) = getMonth(currentDay)
    /\ \A d \in (Val(event.date) + 1)..(currentDay - 1) :
         getDay(d) # weekdayNumber(event.weekday)

(***************************************************************************)
(* Duration extraction of analyzeMeetingRequest                            *)
(***************************************************************************)
\* the unit words the duration pattern accepts, and whether each is an hour
\* or a minute unit
UnitForms ==
  {[text |-> <<"m", "i", "n">>, hours |-> FALSE], [text |-> <<"m", "i", "n", "u", "t", "e">>, hours |-> FALSE],
   [text |-> <<"m", "i", "n", "u", "t", "e", "s">>, hours |-> FALSE], [text |-> <<"M", "i", "n", "u", "t", "e", "s">>, hours |-> FALSE],
   [text |-> <<"h", "r">>, hours |-> TRUE], [text |-> <<"h", "r", "s">>, hours |-> TRUE],
   [text |-> <<"h", "o", "u", "r">>, hours |-> TRUE], [text |-> <<"h", "o", "u", "r", "s">>, hours |-> TRUE],
   [text |-> <<"H", "o", "u", "r", "s">>, hours |-> TRUE]}

DurationNumbers == {1, 2, 3, 8, 30, 45, 90}

DurationContexts ==
  {<<<<>>, <<>>>>, <<<<"b", "o", "o", "k", " ", "a", " ", "c", "a", "l", "l", " ", "f", "o", "r", " ">>, <<>>>>,
   <<<<"m", "e", "e", "t", "i", "n", "g", " ", "w", "i", "t", "h", " ", "b", "o", "b", "@", "x", ".", "c", "o", "m", " ", "t", "o", "m", "o", "r", "r", "o", "w", " ", "f", "o", "r", " ">>, <<" ", "p", "l", "e", "a", "s", "e">>>>}

DurationInputs ==
  {[kind |-> "durationInput", number |-> n, unit |-> form,
    message |-> c[1] \o toString(n) \o gap \o form.text \o c[2]] :
     n \in DurationNumbers, form \in UnitForms, gap \in {<<>>, <<" ">>},
     c \in DurationContexts}

DurationInit ==
  /\ userMeetingStates = [u \in Users |-> None]
  /\ conversations = [u \in Users |-> None]
  /\ userTokens = {}
  /\ authServer = None
  /\ createCalls = [u \in Users |-> 0]
  /\ currentDay = MakeDate(2026, 10, 3)
  /\ now = 0
  /\ lastChat = [u \in Users |-> None]
  /\ inflight = NothingInFlight
  /\ event \in DurationInputs

\* analyzeMeetingRequest is applied to the input
ExtractDuration ==
  /\ event.kind = "durationInput"
  /\ event' = [kind |-> "analyzeMeetingRequest", number |-> event.number,
               unit |-> event.unit, message |-> event.message,
               duration |-> analyzeMeetingRequest(event.message).extractedInfo.duration]
  /\ UNCHANGED <<userMeetingStates, conversations, userTokens, authServer,
                 createCalls, currentDay, now, lastChat, inflight>>

DurationSpec == DurationInit /\ [][ExtractDuration]_vars

\* C26: the duration taken from the initial message is the number times 60
\* for every hour unit the pattern accepts (hr, hrs, hour, hours) and the
\* number itself for a minute unit
C26_HourUnitsToMinutes ==
  event.kind = "analyzeMeetingRequest" =>
    event.duration = Some(IF event.unit.hours THEN event.number * 60
                          ELSE event.number)

(***************************************************************************)
(* Handlers of one user in flight at once                                  *)
(*                                                                         *)
(* handleMessage runs to its first await when a message arrives and goes   *)
(* on when the awaited reply call resolves; another message may arrive in  *)
(* between. A handler holds a reference to the MeetingState object it read *)
(* from userMeetingStates: an assignment to state.step or state.details    *)
(* changes that object for every holder, the map included.                 *)
(***************************************************************************)
\* the messages that arrive (an @ in a text could not pass the email step,
\* so the dialogue stays in the collecting steps)
RaceMessages == {MsgBare, MsgTomorrow, Msg3pm, MsgCancel, MsgHello}

\* the messages handled in one behaviour
MaxArrivals == 4

running(handler) == handler.pc \in {"reply", "beforeSet"}

\* the slot a handler started now runs in: slot 1 opens a round when nothing
\* is in flight, slot 2 is the message that arrives while slot 1 waits
freeSlot ==
  IF \A h \in Handlers : ~running(inflight.handlers[h]) THEN 1
  ELSE IF running(inflight.handlers[1]) /\ inflight.handlers[2].pc = "idle" THEN 2
  ELSE 0

\* what a handler started in slot h leaves of the others, and the entries
\* the round began with
started(h, handler) ==
  IF h = 1
  THEN [inflight EXCEPT !.handlers = [k \in Handlers |->
                                        IF k = 1 THEN handler ELSE idleHandler],
                        !.base = userMeetingStates,
                        !.arrivals = @ + 1]
  ELSE [inflight EXCEPT !.handlers[h] = handler, !.arrivals = @ + 1]

\* lines 271-277: a cancel keyword while a dialogue is stored deletes the
\* entry, then the handler waits for the reply call and returns
ArriveCancel(userId, userMessage, h) ==
  /\ userMeetingStates[userId] # None
  /\ hasCancelKeyword(userMessage)
  /\ userMeetingStates' = deleted(userId)
  /\ inflight' = [started(h, [pc |-> "reply", user |-> userId,
                              message |-> userMessage,
                              obj |-> inflight.entry[userId]])
                    EXCEPT !.entry[userId] = 0]

\* lines 280-366: with no dialogue stored a new MeetingState object is
\* filled in and stored, then the handler waits for the reply call and
\* returns
ArriveOpen(userId, userMessage, h) ==
  /\ userMeetingStates[userId] = None
  /\ userMeetingStates' = stored(userId, openingState[<<userMessage, currentDay>>])
  /\ inflight' = [started(h, [pc |-> "reply", user |-> userId,
                              message |-> userMessage,
                              obj |-> Len(inflight.objects) + 1])
                    EXCEPT !.objects = Append(@, openingState[<<userMessage, currentDay>>]),
                           !.entry[userId] = Len(inflight.objects) + 1]

\* lines 370-465: an answer at a collecting step. A rejected answer waits
\* for the re-prompt and returns; an accepted one assigns to the object
\* read from the map, waits for the reply call and goes on to line 516
ArriveCollect(userId, userMessage, h) ==
  /\ userMeetingStates[userId] # None
  /\ ~hasCancelKeyword(userMessage)
  /\ Val(userMeetingStates[userId]).step \in CollectSteps
  /\ LET r == collectStep(Val(userMeetingStates[userId]), userMessage, currentDay)
         obj == inflight.entry[userId]
     IN IF r.ok
        THEN /\ userMeetingStates' = stored(userId, r.state)
             /\ inflight' = [started(h, [pc |-> "beforeSet", user |-> userId,
                                         message |-> userMessage, obj |-> obj])
                               EXCEPT !.objects[obj] = r.state]
        ELSE /\ UNCHANGED userMeetingStates
             /\ inflight' = started(h, [pc |-> "reply", user |-> userId,
                                        message |-> userMessage, obj |-> obj])

\* a message arrives and its handler runs to its first await
Arrive ==
  \E u \in Senders : \E m \in RaceMessages :
    /\ inflight.arrivals < MaxArrivals
    /\ freeSlot # 0
    /\ routeOf(u, m) = "meeting"
    /\ \/ ArriveCancel(u, m, freeSlot)
       \/ ArriveOpen(u, m, freeSlot)
       \/ ArriveCollect(u, m, freeSlot)
    /\ event' = [kind |-> "arrive", user |-> u, message |-> m, handler |-> freeSlot]
    /\ UNCHANGED <<conversations, userTokens, authServer, createCalls, currentDay,
                   now, lastChat>>

\* the reply call of a handler resolves: the handler returns, or it runs
\* line 516, userMeetingStates.set(userId, state), and returns
Resume ==
  \E h \in Handlers :
    LET handler == inflight.handlers[h]
    IN /\ running(handler)
       /\ IF handler.pc = "beforeSet"
          THEN /\ userMeetingStates' = stored(handler.user, inflight.objects[handler.obj])
               /\ inflight' = [inflight EXCEPT !.handlers[h].pc = "done",
                                               !.entry[handler.user] = handler.obj]
          ELSE /\ UNCHANGED userMeetingStates
               /\ inflight' = [inflight EXCEPT !.handlers[h].pc = "done"]
       /\ event' = [kind |-> "resume", user |-> handler.user,
                    message |-> handler.message, handler |-> h]
       /\ UNCHANGED <<conversations, userTokens, authServer, createCalls, currentDay,
                      now, lastChat>>

RaceInit == Init /\ currentDay = MakeDate(2026, 10, 3) /\ userTokens = {}

RaceNext == Arrive \/ Resume

RaceSpec == RaceInit /\ [][RaceNext]_vars

\* the entry of a user after a message has been handled alone, from arrival
\* to return
handledAlone(entry, userMessage, day) ==
  IF entry = None
  THEN IF isMeetingRequest(userMessage)
       THEN Some(openingState[<<userMessage, day>>]) ELSE None
  ELSE IF hasCancelKeyword(userMessage) THEN None
  ELSE IF Val(entry).step \in CollectSteps
  THEN Some(collectStep(Val(entry), userMessage, day).state)
  ELSE entry

\* the entry after two messages have been handled one after the other
handledInOrder(entry, first, second, day) ==
  handledAlone(handledAlone(entry, first, day), second, day)

\* two handlers of one user ran in the same round and both have returned
BothReturned(userId) ==
  \A h \in Handlers :
    /\ inflight.handlers[h].pc = "done"
    /\ inflight.handlers[h].user = userId

\* C27: when two messages of one user were in flight at once and both
\* handlers have returned, the user's dialogue is what one of the two serial
\* orders of the messages gives; a dialogue deleted by a cancel keyword is
\* not put back by the last write of the other handler
C27_SerialOutcome ==
  \A u \in Users :
    BothReturned(u) =>
      LET first  == inflight.handlers[1].message
          second == inflight.handlers[2].message
      IN userMeetingStates[u] \in
           {handledInOrder(inflight.base[u], first, second, currentDay),
            handledInOrder(inflight.base[u], second, first, currentDay)}

(***************************************************************************)
(* Properties of the confirm step                                          *)
(***************************************************************************)
\* C28: a dialogue that reached confirm causes at most one create call: when
\* a 'yes' at confirm has scheduled the meeting, a further 'yes' of the user
\* calls createMeeting again only after a new dialogue has been opened
C28_OneCreatePerDialogue ==
  [][(/\ event.kind = "message"
      /\ event.reply = "scheduled"
      /\ event'.kind = "message"
      /\ event'.user = event.user
      /\ textFacts[event'.message].yes)
     => createCalls'[event.user] = createCalls[event.user]]_vars

(***************************************************************************)
(* Properties of the cancel keywords                                       *)
(***************************************************************************)
\* C29: a message that is nothing but a cancel keyword, from a user with no
\* dialogue open, opens no dialogue; 'cancel' sent twice in a row leaves the
\* user without a dialogue
C29_BareKeywordOpensNothing ==
  [][(/\ event'.kind = "message"
      /\ textFacts[event'.message].isCancelKeyword
      /\ userMeetingStates[event'.user] = None)
     => userMeetingStates'[event'.user] = None]_vars

(***************************************************************************)
(* Frame of the collecting steps                                           *)
(***************************************************************************)
Slots == {"date", "time", "attendees", "duration", "description"}

\* the slot a step asks for; confirm asks for none
slotOf(step) ==
  CASE step = "email" -> {"attendees"}
    [] step \in {"date", "time", "duration", "description"} -> {step}
    [] OTHER -> {}

\* C30: an address accepted at the email step replaces the attendee list by
\* that one address, whatever the first message had filled in; and a message
\* sent while a dialogue is open, which leaves a dialogue, changes no slot
\* but the one of the current step
C30_OnlyTheCurrentSlotChanges ==
  [][\A u \in Users :
       (/\ event'.kind = "message"
        /\ event'.user = u
        /\ userMeetingStates[u] # None
        /\ userMeetingStates'[u] # None)
       => LET before == Val(userMeetingStates[u])
              after  == Val(userMeetingStates'[u])
          IN /\ \A slot \in Slots \ slotOf(before.step) :
                  after.details[slot] = before.details[slot]
             /\ (before.step = "email" /\ after.step # "email")
                  => after.details.attendees = <<event'.message>>]_vars

\* the first message named ann@y.org; the address john@x.com given at the
\* email step is now the only attendee
C30_Witness ==
  /\ event.kind = "message"
  /\ event.message = MsgEmail
  /\ event.before # None
  /\ Val(event.before).step = "email"
  /\ Val(event.before).details.attendees = <<<<"a", "n", "n", "@", "y", ".", "o", "r", "g">>>>
  /\ userMeetingStates[event.user] # None
  /\ Val(userMeetingStates[event.user]).details.attendees = <<MsgEmail>>

(***************************************************************************)
(* Progress of a dialogue                                                  *)
(***************************************************************************)
\* the position of a step in the order of the dialogue
stepIndex(step) ==
  CASE step = "date" -> 1
    [] step = "time" -> 2
    [] step = "email" -> 3
    [] step = "duration" -> 4
    [] step = "description" -> 5
    [] step = "confirm" -> 6

\* a slot holds a value
filled(details, slot) ==
  IF slot = "attendees" THEN Len(details.attendees) > 0
  ELSE details[slot] # None

\* C31: while a dialogue exists no message moves its step to an earlier
\* position of the order date, time, email, duration, description, confirm,
\* and no message empties a slot that was filled
C31_StepsOnlyForward ==
  [][\A u \in Users :
       (/\ event'.kind = "message"
        /\ event'.user = u
        /\ userMeetingStates[u] # None
        /\ userMeetingStates'[u] # None)
       => LET before == Val(userMeetingStates[u])
              after  == Val(userMeetingStates'[u])
          IN /\ stepIndex(after.step) >= stepIndex(before.step)
             /\ \A slot \in Slots :
                  filled(before.details, slot) => filled(after.details, slot)]_vars

\* an accepted date moved a dialogue from step date past step time to step
\* email, the time staying filled
C31_Witness ==
  /\ event.kind = "message"
  /\ event.before # None
  /\ Val(event.before).step = "date"
  /\ filled(Val(event.before).details, "time")
  /\ userMeetingStates[event.user] # None
  /\ Val(userMeetingStates[event.user]).step = "email"
  /\ filled(Val(userMeetingStates[event.user]).details, "date")
  /\ filled(Val(userMeetingStates[event.user]).details, "time")

\* C32: an answer that is valid for the current step and holds no cancel
\* keyword moves the step at least one position forward in the order date,
\* time, email, duration, description, confirm; the order has six positions,
\* so a user who answers every prompt this way is at confirm after at most
\* five messages
C32_ValidAnswersReachConfirm ==
  (/\ InDialogue
   /\ StepBefore \in CollectSteps
   /\ ~containsKeyword(event.message)
   /\ validAnswer(StepBefore, event.message, currentDay)) =>
    /\ After # None
    /\ stepIndex(Val(After).step) > stepIndex(StepBefore)
    /\ stepIndex(Val(After).step) <= 6

\* the fifth answer: a dialogue opened with nothing filled in is at confirm
\* after the answer at step description, every slot before it being filled
C32_Witness ==
  /\ InDialogue
  /\ StepBefore = "description"
  /\ ~containsKeyword(event.message)
  /\ \A slot \in Slots \ {"description"} : filled(Val(event.before).details, slot)
  /\ After # None
  /\ Val(After).step = "confirm"

(***************************************************************************)
(* Two users                                                               *)
(***************************************************************************)
\* what the two users send while a dialogue is open and while none is
IsolationDialogueMessages == {MsgTomorrow, Msg3pm, MsgCancel, MsgHello}

IsolationIdleMessages == {MsgBare, MsgTimeMail, MsgHello, MsgThanks}

IsolationInit == Init /\ currentDay = MakeDate(2026, 10, 3) /\ userTokens = {}

\* either user sends a message
IsolationReceive ==
  ReceiveFromUsers(Users, IsolationDialogueMessages, IsolationIdleMessages, MaxTurns)

IsolationSpec == IsolationInit /\ [][IsolationReceive]_vars

\* C33: handling a message of one user leaves the dialogue and the
\* conversation of every other user as they were, in whatever order the
\* messages of different users arrive
C33_UsersAreIsolated ==
  [][\A u \in Users :
       (event'.kind = "message" /\ event'.user # u)
       => /\ userMeetingStates'[u] = userMeetingStates[u]
          /\ conversations'[u] = conversations[u]]_vars

\* a user's cancel keyword removed that user's dialogue while another user
\* keeps a dialogue and a conversation
C33_Witness ==
  \E u \in Users : \E v \in Users \ {u} :
    /\ event.kind = "message"
    /\ event.user = u
    /\ event.reply = "cancelled"
    /\ userMeetingStates[u] = None
    /\ conversations[u] # None
    /\ userMeetingStates[v] # None
    /\ conversations[v] # None

(***************************************************************************)
(* The time slot                                                           *)
(***************************************************************************)
\* a zero-padded HH:MM text with the hour in 00..23 and the minute in 00..59
validClockTime(text) ==
  /\ Len(text) = 5
  /\ text[3] = ":"
  /\ \A k \in {1, 2, 4, 5} : text[k] \in Digits
  /\ DigitsValue(SubSeq(text, 1, 2)) \in 0..23
  /\ DigitsValue(SubSeq(text, 4, 5)) \in 0..59

\* C34: the time slot of a dialogue, when it is set, is a valid clock time
C34_TimeSlotIsAClockTime ==
  \A u \in Users :
    (userMeetingStates[u] # None /\ Val(userMeetingStates[u]).details.time # None)
    => validClockTime(Val(Val(userMeetingStates[u]).details.time))

(***************************************************************************)
(* The named relative dates                                                *)
(***************************************************************************)
\* C35: an input that contains a named relative expression is resolved by
\* the table entry of that expression; 'day after tomorrow' gives the day
\* two days after today
C35_OwnTableEntry ==
  (event.kind = "parseDateInput" /\ event.expr.branch = "relative") =>
    /\ event.date = Some(dateExpression(event.expr.entry, currentDay))
    /\ event.expr.entry = 3 => event.date = Some(currentDay + 2)

(***************************************************************************)
(* The nearest occurrence of a weekday                                     *)
(***************************************************************************)
NearestQualifiers == {<<"t", "h", "i", "s">>, <<"c", "o", "m", "i", "n", "g">>, <<>>}

\* C36: with no qualifier, this or coming, a weekday name resolves to the
\* date 1 to 7 days after today that falls on that weekday, 7 days when it
\* is today's weekday; a name that is not a weekday resolves to nothing
C36_NearestFutureOccurrence ==
  (event.kind = "getWeekdayDate" /\ event.qualifier \in NearestQualifiers) =>
    IF \E k \in 0..6 : weekdays[k + 1] = event.weekday
    THEN /\ event.date # None
         /\ getDay(Val(event.date)) = weekdayNumber(event.weekday)
         /\ Val(event.date) - currentDay \in 1..7
         /\ weekdayNumber(event.weekday) = getDay(currentDay) =>
              Val(event.date) - currentDay = 7
    ELSE event.date = None

\* on Tuesday 3 November 2026, tuesday with no qualifier gave Tuesday
\* 10 November
C36_Witness ==
  /\ event.kind = "getWeekdayDate"
  /\ event.qualifier = <<>>
  /\ event.weekday = <<"t", "u", "e", "s", "d", "a", "y">>
  /\ currentDay = MakeDate(2026, 10, 3)
  /\ event.date = Some(MakeDate(2026, 10, 10))
====
